---- MODULE Spec2Model ----
(***************************************************************************)
(* A model of the coordination layer of the multi-agent transaction review *)
(* system: the wrapper codec (shared/a2a_message.py), the Service Bus      *)
(* receive loop (shared/asb_client.py), the generic worker                 *)
(* (agents/base_agent.py), the Deep Agent cycle (shared/deep_agent.py),    *)
(* the workflow state store (shared/state_manager.py) and the entry points *)
(* (agents/orchestration_agent.py).                                        *)
(*                                                                         *)
(* Three specifications share the variables:                               *)
(*   Spec       the bus, the three workers inside their receive loop, the  *)
(*              entry worker's HTTP routes and the storage they write;     *)
(*   SpecState  callers of StateManager.update_state whose load and save   *)
(*              interleave on the shared store;                            *)
(*   SpecCodec  a wrapper encoded by to_dict/to_json and decoded the way   *)
(*              BaseAgent._handle_message_wrapper decodes it.              *)
(***************************************************************************)
EXTENDS Integers, Sequences, FiniteSets, TLC

(***************************************************************************)
(* Bounds of the model.                                                    *)
(***************************************************************************)
MaxEvents == 2      \* environment events of a run: submissions, outside
                    \* messages, caller-supplied receives, failing calls
MaxCalls == 2       \* update_state calls per caller in SpecState
MaxClock == 3       \* clock readings in SpecState and SpecCodec
MaxTxns == 3        \* transactions in one screened payload (SpecScreen)
MaxRetries == 2     \* receive calls of one worker that raise (SpecRetry)
MaxBus == 6         \* messages on the topic while a stage still acts (SpecChain)

(***************************************************************************)
(* Program constants.                                                      *)
(***************************************************************************)
ORCHESTRATION_AGENT_ID == "orchestration-agent"
EXTRACTOR_AGENT_ID == "extractor-agent"
EVALUATOR_AGENT_ID == "evaluator-agent"
SCAP_AGENT_ID == "scap-agent"
SCAP_RULE_THRESHOLD == 1000
TEST_SENDER == "test-sender"

WorkerIds == {EXTRACTOR_AGENT_ID, EVALUATOR_AGENT_ID, SCAP_AGENT_ID}

(***************************************************************************)
(* Python values.  None is a value of its own; a dict is a function from   *)
(* its keys; d.get(k, default) is Get.                                     *)
(***************************************************************************)
None == "<None>"
EmptyDict == [k \in {} |-> None]
Truthy(s) == s # None /\ s # ""
OrElse(a, b) == IF Truthy(a) THEN a ELSE b
Get(d, k, default) == IF k \in DOMAIN d THEN d[k] ELSE default
Put(d, k, v) == [x \in DOMAIN d \cup {k} |-> IF x = k THEN v ELSE d[x]]
Uuid(n) == "uuid-" \o ToString(n)

(***************************************************************************)
(* The case files the extraction stage can be pointed at, and the rules    *)
(* file of the screening stage.  Amounts are whole currency units.         *)
(***************************************************************************)
FileContent(path) ==
    IF path = "three.json"
    THEN << [transaction_id |-> "T1", country |-> "ir", jurisdiction |-> "EU", amount |-> 5000],
            [transaction_id |-> "T2", country |-> "DE", jurisdiction |-> "EU", amount |-> 7000],
            [transaction_id |-> "T3", country |-> "IR", jurisdiction |-> "EU", amount |-> 1000] >>
    ELSE << [transaction_id |-> "T1", country |-> "FR", jurisdiction |-> "Offshore", amount |-> 1001] >>
FilePaths == {"three.json", "one.json"}
CaseFile(case_id) == IF case_id = "CASE-001" THEN "three.json" ELSE "one.json"
SubmitCases == {"CASE-001"}
SensitiveCountries == {"IR"}
SensitiveJurisdictions == {"OFFSHORE"}

(***************************************************************************)
(* str.lower() and str.upper() on the strings the model uses.              *)
(***************************************************************************)
Lower(s) == CASE s = "USER" -> "user" [] s = "AGENT" -> "agent" [] OTHER -> s
Upper(s) == CASE s = "ir" -> "IR" [] s = "Offshore" -> "OFFSHORE"
              [] s = "offshore" -> "OFFSHORE" [] OTHER -> s

(***************************************************************************)
(* shared/a2a_message.py: the envelope (a2a Message) and the wrapper.      *)
(***************************************************************************)
ROLE_USER == "Role.user"
ROLE_AGENT == "Role.agent"
RoleValue(r) == IF r = ROLE_USER THEN "user" ELSE "agent"

create_a2a_message(message_id, role, text, context_id, task_id) ==
    [message_id |-> message_id,
     role |-> IF Lower(role) = "user" THEN ROLE_USER ELSE ROLE_AGENT,
     parts |-> << [text |-> text] >>,
     context_id |-> context_id,
     task_id |-> task_id]

message_to_dict(message) ==
    [message_id |-> message.message_id,
     role |-> RoleValue(message.role),
     parts |-> [i \in DOMAIN message.parts |-> [text |-> message.parts[i].text]],
     context_id |-> message.context_id,
     task_id |-> message.task_id]

\* message_from_dict raises when the role is not a string (None.lower()).
message_from_dict_raises(data) == Get(data, "role", "") = None

message_from_dict(data) ==
    [message_id |-> Get(data, "message_id", ""),
     role |-> IF Lower(Get(data, "role", "")) = "user" THEN ROLE_USER ELSE ROLE_AGENT,
     parts |-> [i \in DOMAIN Get(data, "parts", <<>>) |->
                   [text |-> Get(Get(data, "parts", <<>>)[i], "text", "")]],
     context_id |-> Get(data, "context_id", None),
     task_id |-> Get(data, "task_id", None)]

\* from_agent.split("-")[0] if "-" in from_agent else from_agent
AgentType(from_agent) ==
    CASE from_agent = ORCHESTRATION_AGENT_ID -> "orchestration"
      [] from_agent = EXTRACTOR_AGENT_ID -> "extractor"
      [] from_agent = EVALUATOR_AGENT_ID -> "evaluator"
      [] from_agent = SCAP_AGENT_ID -> "scap"
      [] from_agent = TEST_SENDER -> "test"
      [] OTHER -> from_agent

\* A2AMessageWrapper.__init__; now is datetime.utcnow() at construction.
A2AMessageWrapper(message, from_agent, to_agent, payload, now) ==
    [message |-> message,
     from_agent |-> from_agent,
     to_agent |-> to_agent,
     payload |-> payload,
     conversation_id |-> message.context_id,
     correlation_id |-> message.task_id,
     metadata |-> [agent_id |-> from_agent,
                   agent_type |-> AgentType(from_agent),
                   task_id |-> OrElse(message.task_id, ""),
                   timestamp |-> now]]

to_dict(w) ==
    [from_agent |-> w.from_agent,
     to_agent |-> w.to_agent,
     message |-> message_to_dict(w.message),
     payload |-> w.payload,
     metadata |-> w.metadata,
     conversation_id |-> w.conversation_id,
     correlation_id |-> w.correlation_id]

\* BaseAgent._handle_message_wrapper, the decoding part: the wrapper is rebuilt
\* from message, from_agent, to_agent and payload of the received dict.
DecodeWrapper(data, now) ==
    A2AMessageWrapper(message_from_dict(Get(data, "message", EmptyDict)),
                      Get(data, "from_agent", ""),
                      Get(data, "to_agent", ""),
                      Get(data, "payload", EmptyDict),
                      now)

DecodeRaises(data) == message_from_dict_raises(Get(data, "message", EmptyDict))

(***************************************************************************)
(* State.                                                                  *)
(***************************************************************************)
VARIABLES
    clock,        \* datetime.utcnow(): the last reading
    uuidCtr,      \* uuid.uuid4(): the number of values drawn
    llm,          \* DeepAgent.llm is set (a provider is configured)
    graph,        \* DeepAgent.graph: the compiled workflow every worker holds
    faults,       \* failures injected so far
    \* ---- the topic and its subscriptions (Azure Service Bus)
    busSeq,       \* sequence number of the last message published
    topicLog,     \* every message ever published to the topic
    subs,         \* subscription "<agent_id>-subscription" -> messages available
    dlq,          \* subscription -> dead-lettered messages
    settleLog,    \* <<subscription, seq>> -> settlements applied, in order
    last,         \* the last iteration of a receive loop: who took which
                  \* message, what became of it, what the handler did
    handlerRuns,  \* <<agent_id, seq>> for which receive invoked its handler
    \* ---- the storage port
    stateStore,   \* <<agent_id, state_id>> -> state
    taskStore,    \* <<agent_id, task_id>> -> task_data
    convStore,    \* document id -> [conversation_id, message, timestamp]
    txnStore,     \* document id -> [case_id, transaction, timestamp]
    a2aTasks,     \* DatabaseTaskStore of the a2a sdk: <<agent_id, task_id>> -> task
    \* ---- the entry worker's HTTP surface
    cases,        \* the submissions accepted so far, in order
    nExternal,    \* messages published by the outside sender so far
    nProbe,       \* receive calls with a caller-supplied handler so far
    \* ---- callers of update_state (SpecState): the number of writes so far
    \* and, per caller, its current call
    su,
    \* ---- one wrapper through encode and decode (SpecCodec)
    cd,
    \* ---- one screening of a list of transactions (SpecScreen)
    sc,
    \* ---- per worker, the messages its receive loop has taken and not yet
    \* settled, each with the loop's position (SpecLoop)
    lp,
    \* ---- per worker, BaseAgent.start: its position, self.running and the
    \* receive calls that have raised (SpecStart, SpecRetry)
    starts,
    \* ---- the POST /api/v1/transaction-review request in progress (SpecEntry)
    rq,
    \* ---- the storage client under test and what its callers saw (SpecTxn)
    tx

busVars == <<busSeq, topicLog, subs, dlq, settleLog, last, handlerRuns>>
storeVars == <<stateStore, taskStore, convStore, txnStore, a2aTasks>>
entryVars == <<cases, nExternal, nProbe>>
envVars == <<clock, uuidCtr, llm, graph, faults>>
fnVars == <<sc, lp, starts, rq, tx>>
vars == <<envVars, busVars, storeVars, entryVars, su, cd, fnVars>>

(***************************************************************************)
(* shared/cosmos_client.py: blind upserts keyed by document id.            *)
(***************************************************************************)
StateKey(agent_id, state_id) == <<agent_id, state_id>>

\* A write that inserts and leaves an existing document as it is.
save_state_insert(store, agent_id, state_id, state) ==
    IF <<agent_id, state_id>> \in DOMAIN store THEN store
    ELSE Put(store, <<agent_id, state_id>>, state)

\* upsert_item
save_state(store, agent_id, state_id, state) ==
    Put(store, StateKey(agent_id, state_id), state)

HasState(store, agent_id, state_id) == StateKey(agent_id, state_id) \in DOMAIN store

save_task(store, agent_id, task_id, task_data) ==
    Put(store, <<agent_id, task_id>>, task_data)

\* message.get("id", f"{conversation_id}_{timestamp}") is the document id.
save_conversation(store, conversation_id, message) ==
    Put(store,
        Get(message, "id", conversation_id \o "_" \o ToString(message.timestamp)),
        [conversation_id |-> conversation_id, message |-> message,
         timestamp |-> message.timestamp])

(***************************************************************************)
(* shared/state_manager.py                                                 *)
(***************************************************************************)
NoneRec == [none |-> TRUE]

\* TransactionReviewState.__annotations__
Schema == {"case_id", "file_path", "transactions", "extracted_transactions",
           "scap_results", "summary", "status", "error", "conversation_id",
           "current_agent", "timestamp"}

InitialState(case_id, file_path, conversation_id, now) ==
    [case_id |-> case_id,
     file_path |-> file_path,
     transactions |-> <<>>,
     extracted_transactions |-> <<>>,
     scap_results |-> NoneRec,
     summary |-> None,
     status |-> "initialized",
     error |-> None,
     conversation_id |-> conversation_id,
     current_agent |-> "orchestration",
     timestamp |-> now]

\* create_initial_state: the record is saved under the literal namespace
\* "orchestration", keyed by the conversation id.
create_initial_state(store, case_id, file_path, conversation_id, now) ==
    save_state(store, "orchestration", conversation_id,
               InitialState(case_id, file_path, conversation_id, now))

\* load_state: None when the document is missing or the stored state is falsy.
LoadFound(store, agent_id, state_id) ==
    /\ HasState(store, agent_id, state_id)
    /\ DOMAIN store[StateKey(agent_id, state_id)] # {}

load_state(store, agent_id, state_id) == store[StateKey(agent_id, state_id)]

\* A merge that takes every key of the update, in the schema or not.
MergeEveryKey(current, updates, now) ==
    Put([k \in DOMAIN current \cup DOMAIN updates |->
            IF k \in DOMAIN updates THEN updates[k] ELSE current[k]],
        "timestamp", now)

\* The loop of update_state over updates.items(), then the fresh timestamp.
MergeUpdates(current, updates, now) ==
    LET keys == DOMAIN updates \cap Schema
        merged == [k \in DOMAIN current \cup keys |->
                      IF k \in keys THEN updates[k] ELSE current[k]]
    IN  Put(merged, "timestamp", now)

\* An update_state that goes on when load_state returned nothing.
StateNotFoundNever(store, agent_id, state_id) == FALSE

\* `if not current_state: raise ValueError(f"State not found: {state_id}")`
StateNotFound(store, agent_id, state_id) == ~LoadFound(store, agent_id, state_id)

\* What update_state holds in current_state after `if not current_state`.
CurrentState(store, agent_id, state_id) ==
    IF LoadFound(store, agent_id, state_id)
    THEN load_state(store, agent_id, state_id) ELSE EmptyDict

\* update_state run without interruption: [raised, store, ret].
update_state(store, agent_id, state_id, updates, now) ==
    IF StateNotFound(store, agent_id, state_id)
    THEN [raised |-> TRUE, store |-> store, ret |-> EmptyDict]
    ELSE LET new == MergeUpdates(CurrentState(store, agent_id, state_id), updates, now)
         IN  [raised |-> FALSE,
              store |-> save_state(store, agent_id, state_id, new),
              ret |-> new]

\* save_transactions: one upsert per transaction, keyed by its transaction_id,
\* or by f"{case_id}_{id}" when it has none.
RECURSIVE save_transactions(_, _, _)
save_transactions(store, case_id, transactions) ==
    IF transactions = <<>> THEN store
    ELSE LET t == Head(transactions)
             id == Get(t, "transaction_id", case_id \o "_" \o Get(t, "id", ""))
         IN  save_transactions(
                 Put(store, id, [case_id |-> case_id, transaction |-> t,
                                 timestamp |-> Get(t, "timestamp", "")]),
                 case_id, Tail(transactions))

\* PostgreSQLClient.save_transactions: INSERT ... ON CONFLICT (id) DO UPDATE
\* SET transaction, timestamp; the case_id of a row that exists is kept.
RECURSIVE pg_save_transactions(_, _, _)
pg_save_transactions(store, case_id, transactions) ==
    IF transactions = <<>> THEN store
    ELSE LET t == Head(transactions)
             id == Get(t, "transaction_id", case_id \o "_" \o Get(t, "id", ""))
             row == IF id \in DOMAIN store
                    THEN [store[id] EXCEPT !.transaction = t,
                                           !.timestamp = Get(t, "timestamp", "")]
                    ELSE [case_id |-> case_id, transaction |-> t,
                          timestamp |-> Get(t, "timestamp", "")]
         IN  pg_save_transactions(Put(store, id, row), case_id, Tail(transactions))

\* get_transactions: the transactions of the documents (rows) whose case_id is
\* the case's; their order (by timestamp) is left out.
get_transactions(store, case_id) ==
    {store[id].transaction : id \in {k \in DOMAIN store : store[k].case_id = case_id}}

(***************************************************************************)
(* agents/scap_agent.py: RuleEngine.                                       *)
(***************************************************************************)
is_sensitive_country(country) ==
    Upper(country) \in {Upper(c) : c \in SensitiveCountries}

is_sensitive_jurisdiction(jurisdiction) ==
    Upper(jurisdiction) \in {Upper(j) : j \in SensitiveJurisdictions}

\* A threshold test that an amount equal to the threshold passes.
exceeds_threshold_inclusive(amount) == amount >= SCAP_RULE_THRESHOLD

exceeds_threshold(amount) == amount > SCAP_RULE_THRESHOLD

evaluate_transaction(t) ==
    LET country == Upper(Get(t, "country", ""))
        jurisdiction == Upper(Get(t, "jurisdiction", ""))
        amount == Get(t, "amount", 0)
    IN  [transaction_id |-> Get(t, "transaction_id", None),
         country |-> country,
         jurisdiction |-> jurisdiction,
         amount |-> amount,
         is_sensitive_country |-> is_sensitive_country(country),
         is_sensitive_jurisdiction |-> is_sensitive_jurisdiction(jurisdiction),
         exceeds_threshold |-> exceeds_threshold(amount),
         risk_flagged |-> /\ (is_sensitive_country(country)
                              \/ is_sensitive_jurisdiction(jurisdiction))
                          /\ exceeds_threshold(amount)]

RECURSIVE SelectFlagged(_)
SelectFlagged(results) ==
    IF results = <<>> THEN <<>>
    ELSE IF Head(results).risk_flagged
         THEN <<Head(results)>> \o SelectFlagged(Tail(results))
         ELSE SelectFlagged(Tail(results))

\* sum(txn.get("amount", 0) for txn in flagged_transactions)
RECURSIVE SumAmount(_)
SumAmount(flagged) ==
    IF flagged = <<>> THEN 0
    ELSE Get(Head(flagged), "amount", 0) + SumAmount(Tail(flagged))

\* f"{n:,.2f}" of a whole amount below a million
FormatAmount(n) ==
    LET Pad3(k) == IF k < 10 THEN "00" \o ToString(k)
                   ELSE IF k < 100 THEN "0" \o ToString(k) ELSE ToString(k)
    IN  (IF n >= 1000 THEN ToString(n \div 1000) \o "," \o Pad3(n % 1000)
         ELSE ToString(n)) \o ".00"

\* the countries dict: country -> number of flagged transactions, and the
\* countries in the order of their first occurrence
RECURSIVE CountryOrder(_, _)
CountryOrder(flagged, seen) ==
    IF flagged = <<>> THEN seen
    ELSE LET c == Get(Head(flagged), "country", "Unknown")
         IN  CountryOrder(Tail(flagged),
                 IF \E i \in DOMAIN seen : seen[i] = c THEN seen ELSE Append(seen, c))
RECURSIVE CountryLines(_, _)
CountryLines(flagged, order) ==
    IF order = <<>> THEN <<>>
    ELSE <<"  - ", Head(order), ": ",
           ToString(Cardinality({i \in DOMAIN flagged :
                       Get(flagged[i], "country", "Unknown") = Head(order)})),
           " transactions">> \o CountryLines(flagged, Tail(order))

\* _generate_fallback_summary as the pieces of its f-strings: the literal
\* text and the formatted fields, in order.
fallback_summary_parts(flagged, case_id) ==
    IF flagged = <<>>
    THEN <<"Case ", case_id, ": No transactions flagged for risk.">>
    ELSE <<"Case ", case_id, " - SCAP Analysis Summary\n\nTotal Flagged Transactions: ",
           ToString(Len(flagged)), "\nTotal Flagged Amount: $",
           FormatAmount(SumAmount(flagged)), "\n\nFlagged Transactions by Country:\n">>
         \o CountryLines(flagged, CountryOrder(flagged, <<>>))
         \o <<"\n\nRisk Assessment: ", ToString(Len(flagged)),
              " transaction(s) flagged due to sensitive country/jurisdiction and amount exceeding threshold.\n">>

RECURSIVE Join(_)
Join(parts) == IF parts = <<>> THEN "" ELSE Head(parts) \o Join(Tail(parts))

\* A fallback that leaves the number of flagged transactions out.
fallback_summary_no_count(flagged, case_id) ==
    Join(<<"Case ", case_id, " - SCAP Analysis Summary">>)

\* _generate_fallback_summary: the string returned.
generate_fallback_summary(flagged, case_id) ==
    Join(fallback_summary_parts(flagged, case_id))

LlmText == "llm-text"

\* _generate_summary: the model's text, the fallback without a model or when
\* the invocation raises.
generate_summary(flagged, case_id, hasLlm, llmRaises) ==
    IF ~hasLlm \/ llmRaises THEN generate_fallback_summary(flagged, case_id)
    ELSE LlmText

(***************************************************************************)
(* The execution capabilities (execute_task_from_state).  A capability     *)
(* reads and writes the stores and may publish; W is the world it acts on: *)
(* [stateStore, txnStore, a2aTasks, out], out the wrappers it published.   *)
(* The value is [raised, result, W].                                       *)
(***************************************************************************)
save_langgraph_state(W, agent_id, task_id, state) ==
    [W EXCEPT !.stateStore = save_state(W.stateStore, agent_id, task_id, state)]

\* A failure path that leaves a Workflow State for the case behind.
CapRaiseCreating(W, agent_id, state) ==
    [raised |-> TRUE, result |-> EmptyDict,
     W |-> save_langgraph_state(
               save_langgraph_state(W, agent_id, state.task_id, state),
               ORCHESTRATION_AGENT_ID, state.task_id, state)]

\* `except Exception`: save_langgraph_state(task_id, state), then raise.
CapRaise(W, agent_id, state) ==
    [raised |-> TRUE, result |-> EmptyDict,
     W |-> save_langgraph_state(W, agent_id, state.task_id, state)]

CapReturn(W, agent_id, state, result) ==
    [raised |-> FALSE, result |-> result,
     W |-> save_langgraph_state(W, agent_id, state.task_id, state)]

CapPayload(state) == Get(state.context, "payload", EmptyDict)
CapCaseId(state) == OrElse(Get(CapPayload(state), "case_id", None), state.case_id)
\* state.get("conversation_id") or case_id
CapConversationId(state) == OrElse(Get(state, "conversation_id", None), CapCaseId(state))

\* An extraction stage that addresses the screening worker.
ExtractorTargetScap == SCAP_AGENT_ID

\* to_agent=Config.EVALUATOR_AGENT_ID of the wrapper the extraction stage sends
ExtractorTarget == EVALUATOR_AGENT_ID

ExtractorExecute(W0, agent_id, state, now) ==
    LET W == save_langgraph_state(W0, agent_id, state.task_id, state)
        case_id == CapCaseId(state)
        file_path == Get(CapPayload(state), "file_path", None)
        conversation_id == CapConversationId(state)
    IN  IF ~LoadFound(W.stateStore, ORCHESTRATION_AGENT_ID, conversation_id)
        THEN CapRaise(W, agent_id, state)
        ELSE IF file_path \notin FilePaths
        THEN CapRaise(W, agent_id, state)
        ELSE LET transactions == FileContent(file_path)
                 upd == update_state(W.stateStore, ORCHESTRATION_AGENT_ID, conversation_id,
                                     [extracted_transactions |-> transactions,
                                      status |-> "extracted"], now)
                 wr == A2AMessageWrapper(
                           create_a2a_message(state.task_id \o "_to_evaluator", "agent",
                               "Extracted transactions ready for evaluation",
                               conversation_id, state.task_id),
                           agent_id, ExtractorTarget,
                           [case_id |-> case_id, transactions |-> transactions,
                            action |-> "evaluate_transactions"], now)
                 W1 == [W EXCEPT
                          !.txnStore = save_transactions(@, case_id, transactions),
                          !.stateStore = upd.store,
                          !.a2aTasks = Put(@, <<agent_id, state.task_id>>,
                                           [case_id |-> case_id, status |-> "extracted",
                                            conversation_id |-> conversation_id]),
                          !.out = Append(@, to_dict(wr))]
             IN  CapReturn(W1, agent_id, state,
                           [status |-> "success",
                            transactions_extracted |-> Len(transactions),
                            case_id |-> case_id])

EvaluatorExecute(W0, agent_id, state, now) ==
    LET W == save_langgraph_state(W0, agent_id, state.task_id, state)
        case_id == CapCaseId(state)
        transactions == Get(CapPayload(state), "transactions", <<>>)
        conversation_id == CapConversationId(state)
    IN  IF ~LoadFound(W.stateStore, ORCHESTRATION_AGENT_ID, conversation_id)
        THEN CapRaise(W, agent_id, state)
        ELSE LET wr == A2AMessageWrapper(
                           create_a2a_message(state.task_id \o "_to_scap", "agent",
                               "Transactions ready for SCAP validation",
                               conversation_id, state.task_id),
                           agent_id, SCAP_AGENT_ID,
                           [case_id |-> case_id, transactions |-> transactions,
                            action |-> "validate_sensitive_countries"], now)
                 upd == update_state(W.stateStore, ORCHESTRATION_AGENT_ID, conversation_id,
                                     [status |-> "evaluating"], now)
                 W1 == [W EXCEPT
                          !.a2aTasks = Put(@, <<agent_id, state.task_id>>,
                                           [case_id |-> case_id, status |-> "delegated",
                                            conversation_id |-> conversation_id]),
                          !.out = Append(@, to_dict(wr)),
                          !.stateStore = upd.store]
             IN  CapReturn(W1, agent_id, state,
                           [status |-> "delegated", delegated_to |-> SCAP_AGENT_ID,
                            case_id |-> case_id])

\* execute_task_from_state of the screening worker, from the loop over the
\* transactions to the results record.
scap_screen(transactions, case_id, timestamp, hasLlm, llmRaises) ==
    LET scap_results == [i \in DOMAIN transactions |->
                            evaluate_transaction(transactions[i])]
        flagged == SelectFlagged(scap_results)
    IN  [case_id |-> case_id,
         total_transactions |-> Len(transactions),
         flagged_count |-> Len(flagged),
         flagged_transactions |-> flagged,
         summary |-> generate_summary(flagged, case_id, hasLlm, llmRaises),
         timestamp |-> timestamp]

ScapExecute(W0, agent_id, state, now, hasLlm, llmRaises) ==
    LET W == save_langgraph_state(W0, agent_id, state.task_id, state)
        case_id == CapCaseId(state)
        transactions == Get(CapPayload(state), "transactions", <<>>)
        conversation_id == CapConversationId(state)
    IN  IF ~LoadFound(W.stateStore, ORCHESTRATION_AGENT_ID, conversation_id)
        THEN CapRaise(W, agent_id, state)
        ELSE LET results == scap_screen(transactions, case_id, state.timestamp,
                                        hasLlm, llmRaises)
                 summary == results.summary
                 upd == update_state(W.stateStore, ORCHESTRATION_AGENT_ID, conversation_id,
                                     [scap_results |-> results, summary |-> summary,
                                      status |-> "completed"], now)
                 W1 == [W EXCEPT
                          !.stateStore = upd.store,
                          !.a2aTasks = Put(@, <<agent_id, state.task_id>>,
                                           [case_id |-> case_id, status |-> "completed",
                                            conversation_id |-> conversation_id])]
             IN  CapReturn(W1, agent_id, state,
                           [status |-> "success", results |-> results])

execute_task_from_state(W, agent_id, state, now, hasLlm, llmRaises) ==
    CASE agent_id = EXTRACTOR_AGENT_ID -> ExtractorExecute(W, agent_id, state, now)
      [] agent_id = EVALUATOR_AGENT_ID -> EvaluatorExecute(W, agent_id, state, now)
      [] OTHER -> ScapExecute(W, agent_id, state, now, hasLlm, llmRaises)

(***************************************************************************)
(* shared/deep_agent.py: the cycle.                                        *)
(***************************************************************************)
EXEC_PLACEHOLDER == "DeepAgent._execute_node"
EXEC_OVERRIDE == "BaseAgent._deep_execute_node"

\* A workflow whose edges lead from SENSE to PLAN and back to PERCEIVE.
build_workflow_swapped(execute_node) ==
    [entry |-> "sense",
     execute |-> execute_node,
     edge |-> [sense |-> "plan", plan |-> "perceive", perceive |-> "execute",
               execute |-> "learn", learn |-> "END"]]

\* _build_workflow: add_node stores the callables it is handed; the edges.
build_workflow(execute_node) ==
    [entry |-> "sense",
     execute |-> execute_node,
     edge |-> [sense |-> "perceive", perceive |-> "plan", plan |-> "execute",
               execute |-> "learn", learn |-> "END"]]

\* DeepAgent.__init__: the graph is built from the attributes as they are then.
DeepAgentInit ==
    LET self == [execute_node |-> EXEC_PLACEHOLDER]
    IN  [execute_node |-> self.execute_node, graph |-> build_workflow(self.execute_node)]

\* BaseAgent.__init__: the DeepAgent is constructed, then its _execute_node
\* attribute is assigned.
BaseAgentInit == [DeepAgentInit EXCEPT !.execute_node = EXEC_OVERRIDE]

Graph == BaseAgentInit.graph

\* run_cycle: the DeepAgentState handed to the graph.
run_cycle_state(agent_id, initial_state) ==
    [agent_id |-> agent_id,
     context |-> Get(initial_state, "context", EmptyDict),
     goals |-> Get(initial_state, "goals", <<>>),
     discovered_tools |-> <<>>,
     discovered_agents |-> <<>>,
     perception |-> EmptyDict,
     plan |-> <<>>,
     execution_results |-> <<>>,
     learning |-> EmptyDict,
     conversation_history |-> <<>>,
     task_id |-> Get(initial_state, "task_id", ""),
     case_id |-> Get(initial_state, "case_id", None),
     timestamp |-> Get(initial_state, "timestamp", ""),
     phases |-> <<>>]

\* get_conversation_history: the messages of a conversation, by timestamp.
RECURSIVE SortDocs(_)
SortDocs(docs) ==
    IF docs = {} THEN <<>>
    ELSE LET d == CHOOSE x \in docs : \A y \in docs : x.timestamp <= y.timestamp
         IN  <<d.message>> \o SortDocs(docs \ {d})

get_conversation_history(store, conversation_id) ==
    SortDocs({store[id] : id \in {i \in DOMAIN store :
                                     store[i].conversation_id = conversation_id}})

\* _retrieve_context: [found, context]
retrieve_context(state, agent_id, tasks, convs) ==
    LET conversation_id == Get(state, "conversation_id", None)
        history == IF Truthy(conversation_id)
                   THEN get_conversation_history(convs, conversation_id) ELSE <<>>
    IN  IF history # <<>>
        THEN [found |-> TRUE,
              context |-> [conversation_history |-> history,
                           last_state |-> history[Len(history)]]]
        ELSE IF Truthy(state.task_id) /\ <<agent_id, state.task_id>> \in DOMAIN tasks
        THEN [found |-> TRUE,
              context |-> [task_context |-> tasks[<<agent_id, state.task_id>>]]]
        ELSE [found |-> FALSE, context |-> EmptyDict]

Ran(state, phase) == [state EXCEPT !.phases = Append(@, phase)]

sense_node(state, agent_id, tasks, convs) ==
    LET r == retrieve_context(state, agent_id, tasks, convs)
        goals == IF state.goals = <<>> /\ r.found
                 THEN Get(r.context, "goals", <<>>) ELSE state.goals
    IN  [Ran(state, "sense") EXCEPT
            !.discovered_tools = <<"cosmos_db", "service_bus">>,
            !.context = IF r.found /\ DOMAIN r.context # {} THEN r.context ELSE @,
            !.goals = goals]

\* A PERCEIVE that stores nothing when the model invocation fails.
perceive_node_no_fallback(state, hasLlm, llmRaises) ==
    IF hasLlm /\ llmRaises THEN Ran(state, "perceive")
    ELSE [Ran(state, "perceive") EXCEPT !.perception =
             [understanding |-> IF ~hasLlm THEN "Basic perception without LLM"
                                ELSE LlmText,
              priority |-> "medium"]]

perceive_node(state, hasLlm, llmRaises) ==
    [Ran(state, "perceive") EXCEPT !.perception =
        [understanding |-> IF ~hasLlm THEN "Basic perception without LLM"
                           ELSE IF llmRaises THEN "Error in perception"
                           ELSE LlmText,
         priority |-> "medium"]]

\* A PLAN that leaves the plan empty when the model invocation fails.
plan_node_no_fallback(state, hasLlm, llmRaises) ==
    IF hasLlm /\ llmRaises THEN Ran(state, "plan")
    ELSE [Ran(state, "plan") EXCEPT !.plan =
             << [action |-> "execute_task",
                 description |-> IF ~hasLlm THEN "Execute assigned task"
                                 ELSE LlmText] >>]

plan_node(state, hasLlm, llmRaises) ==
    [Ran(state, "plan") EXCEPT !.plan =
        << [action |-> "execute_task",
            description |-> IF ~hasLlm THEN "Execute assigned task"
                            ELSE IF llmRaises THEN "Fallback plan"
                            ELSE LlmText] >>]

\* DeepAgent._execute_node
execute_node(state) ==
    [Ran(state, "execute") EXCEPT !.execution_results =
        << [status |-> "pending", message |-> "Execution not implemented"] >>]

\* An execute node that records a success whatever the capability did.
deep_execute_node_success(state, cap, now) ==
    [Ran(state, "execute") EXCEPT !.execution_results =
        << [status |-> "success", result |-> cap.result, timestamp |-> now] >>]

\* BaseAgent._deep_execute_node, given what execute_task_from_state did.
deep_execute_node(state, cap, now) ==
    [Ran(state, "execute") EXCEPT !.execution_results =
        IF cap.raised
        THEN << [status |-> "error", error |-> "exception", timestamp |-> now] >>
        ELSE << [status |-> "success", result |-> cap.result, timestamp |-> now] >>]

\* _learn_node: [state, saved]; saved is the memory record appended after the
\* model has answered, or NoneRec.
learn_node(state, hasLlm, llmRaises) ==
    LET learning == [outcome |-> "completed",
                     lessons |-> IF ~hasLlm THEN "Task executed"
                                 ELSE IF llmRaises THEN "Execution completed"
                                 ELSE LlmText]
        st == [Ran(state, "learn") EXCEPT !.learning = learning]
        conversation_id == OrElse(Get(state, "conversation_id", None), state.task_id)
    IN  [state |-> st,
         saved |-> IF hasLlm /\ ~llmRaises /\ Truthy(conversation_id)
                   THEN [conversation_id |-> conversation_id,
                         entry |-> [id |-> conversation_id \o "_" \o ToString(state.timestamp),
                                    agent_id |-> state.agent_id,
                                    task_id |-> state.task_id,
                                    case_id |-> state.case_id,
                                    learning |-> learning,
                                    execution_results |-> state.execution_results,
                                    plan |-> state.plan,
                                    timestamp |-> state.timestamp]]
                   ELSE NoneRec]

(***************************************************************************)
(* agents/base_agent.py: what handle_message derives from the wrapper.     *)
(***************************************************************************)
HConversationId(w) == OrElse(w.message.context_id, w.message.task_id)
\* A handler that takes no task id from the inbound wrapper.
HTaskIdEmpty(w) == ""

\* task_id = message.task_id or ""
HTaskId(w) == OrElse(w.message.task_id, "")
HCaseId(w) == OrElse(Get(w.payload, "case_id", None), Get(w.metadata, "case_id", None))

extract_goals(payload) ==
    LET a == IF Truthy(Get(payload, "action", ""))
             THEN <<"Execute action: " \o payload.action>> ELSE <<>>
        c == IF Truthy(Get(payload, "case_id", None))
             THEN <<"Process case: " \o payload.case_id>> ELSE <<>>
    IN  IF a \o c = <<>> THEN <<"Complete assigned task">> ELSE a \o c

initial_state(w, now) ==
    [task_id |-> HTaskId(w),
     case_id |-> HCaseId(w),
     conversation_id |-> HConversationId(w),
     goals |-> extract_goals(w.payload),
     context |-> [message_data |-> to_dict(w), payload |-> w.payload,
                  from_agent |-> w.from_agent],
     timestamp |-> now]

\* execution_results[0].get("result", {}) if execution_results else {}
HandleResult(state) ==
    IF state.execution_results = <<>> THEN EmptyDict
    ELSE Get(state.execution_results[1], "result", EmptyDict)

\* A response addressed to the worker that sends it.
ResponseWrapperToSelf(agent_id, w, result, now) ==
    A2AMessageWrapper(
        create_a2a_message(HTaskId(w) \o "_response", "agent",
            "Task completed: " \o Get(result, "status", "success"),
            HConversationId(w), HTaskId(w)),
        agent_id, agent_id, result, now)

\* _send_response: the wrapper sent.
ResponseWrapper(agent_id, w, result, now) ==
    A2AMessageWrapper(
        create_a2a_message(HTaskId(w) \o "_response", "agent",
            "Task completed: " \o Get(result, "status", "success"),
            HConversationId(w), HTaskId(w)),
        agent_id, w.from_agent, result, now)

ErrorWrapper(agent_id, w, error, now) ==
    A2AMessageWrapper(
        create_a2a_message(HTaskId(w) \o "_error", "agent", "Error: " \o error,
            HConversationId(w), HTaskId(w)),
        agent_id, w.from_agent, [error |-> error, status |-> "failed"], now)

(***************************************************************************)
(* The topic.  Every subscription of the topic gets a copy of a published  *)
(* message; a received message is locked (taken out of the available set)  *)
(* until it is settled.                                                    *)
(***************************************************************************)
NoMsg == [seq |-> 0, ok |-> FALSE, data |-> EmptyDict]
Now == clock
Spent == Len(cases) + nExternal + nProbe + faults

BrokerMessages(bodies) ==
    {[seq |-> busSeq + i, ok |-> TRUE, data |-> bodies[i]] : i \in DOMAIN bodies}

\* ASBClient.send_message for each body, in order.
Publish(bodies) ==
    /\ busSeq' = busSeq + Len(bodies)
    /\ topicLog' = topicLog \cup BrokerMessages(bodies)
    /\ subs' = [s \in DOMAIN subs |-> subs[s] \cup BrokerMessages(bodies)]

Settled(sub, m, how) ==
    Put(settleLog, <<sub, m.seq>>, Append(Get(settleLog, <<sub, m.seq>>, <<>>), how))

(***************************************************************************)
(* agents/orchestration_agent.py: POST /api/v1/transaction-review and      *)
(* GET /api/v1/status/{case_id}.                                           *)
(***************************************************************************)
\* transaction_review: the wrapper for the extraction worker.
extractor_wrapper(case_id, file_path, conversation_id, task_id) ==
    A2AMessageWrapper(
        create_a2a_message(task_id, "agent",
            "Extract transactions for case " \o case_id,
            conversation_id, task_id),
        ORCHESTRATION_AGENT_ID, EXTRACTOR_AGENT_ID,
        [case_id |-> case_id, file_path |-> file_path,
         action |-> "extract_transactions"], Now)

transaction_review(case_id, file_path) ==
    LET conversation_id == Uuid(uuidCtr + 1)
        task_id == Uuid(uuidCtr + 2)
        wr == extractor_wrapper(case_id, file_path, conversation_id, task_id)
    IN  /\ Spent < MaxEvents
        /\ uuidCtr' = uuidCtr + 2
        /\ stateStore' = create_initial_state(stateStore, case_id, file_path,
                                              conversation_id, Now)
        /\ Publish(<<to_dict(wr)>>)
        /\ cases' = Append(cases, [case_id |-> case_id, file_path |-> file_path,
                                   conversation_id |-> conversation_id,
                                   task_id |-> task_id])
        /\ UNCHANGED <<clock, llm, graph, faults, dlq, settleLog, last, handlerRuns,
                       taskStore, convStore, txnStore, a2aTasks, nExternal, nProbe,
                       su, cd, fnVars>>

\* get_status: load_state(self.agent_id, case_id); 404 when it finds nothing.
get_status_found(case_id) == LoadFound(stateStore, ORCHESTRATION_AGENT_ID, case_id)
get_status(case_id) ==
    LET state == load_state(stateStore, ORCHESTRATION_AGENT_ID, case_id)
    IN  [case_id |-> case_id, status |-> Get(state, "status", None),
         current_agent |-> Get(state, "current_agent", None),
         summary |-> Get(state, "summary", None)]

(***************************************************************************)
(* test_shared_subscription.py: a sender outside the pipeline publishes to *)
(* the topic.  Besides the test's wrapper the body may be one whose        *)
(* envelope has no role string, one that names no sender, or not JSON at   *)
(* all.                                                                    *)
(***************************************************************************)
ExternalInputs ==
    {<<EVALUATOR_AGENT_ID, "wrapper">>, <<SCAP_AGENT_ID, "nosender">>,
     <<EVALUATOR_AGENT_ID, "badrole">>, <<EVALUATOR_AGENT_ID, "notjson">>}

ExternalBody(to_agent, kind) ==
    LET wr == A2AMessageWrapper(
                  create_a2a_message("test_" \o to_agent, "agent",
                      "Test message for " \o to_agent, "test_conversation", None),
                  IF kind = "nosender" THEN "" ELSE TEST_SENDER, to_agent,
                  [case_id |-> "TEST-001", action |-> "test"], Now)
    IN  IF kind = "badrole"
        THEN [to_dict(wr) EXCEPT !.message.role = None]
        ELSE to_dict(wr)

ExternalSend(to_agent, kind) ==
    /\ Spent < MaxEvents
    /\ nExternal' = nExternal + 1
    /\ busSeq' = busSeq + 1
    /\ LET m == [seq |-> busSeq + 1, ok |-> kind # "notjson",
                 data |-> IF kind = "notjson" THEN EmptyDict
                          ELSE ExternalBody(to_agent, kind)]
       IN  /\ topicLog' = topicLog \cup {m}
           /\ subs' = [s \in DOMAIN subs |-> subs[s] \cup {m}]
    /\ UNCHANGED <<envVars, dlq, settleLog, last, handlerRuns, storeVars,
                   cases, nProbe, su, cd, fnVars>>

(***************************************************************************)
(* shared/asb_client.py: receive_messages, one iteration of the loop over  *)
(* the receiver: the message is taken, the handler (if any) runs to its    *)
(* end, the message is settled.  last records the iteration.               *)
(***************************************************************************)
\* subscription_name = f"{agent_id}-subscription": the subscription the
\* receiver of agent_id is opened on (the key of subs and dlq for agent_id).
subscription_name(agent_id) == agent_id \o "-subscription"

\* A receiver that takes every message for its own.
AddressedAny(agent_id, m) == TRUE

\* `if to_agent == agent_id`
Addressed(agent_id, m) == Get(m.data, "to_agent", "") = agent_id

Iteration(agent_id, m, handler, outcome, handled, raised, h) ==
    [agent |-> agent_id, msg |-> m, handler |-> handler, outcome |-> outcome,
     handled |-> handled, raised |-> raised, wrap |-> h.wrap, state |-> h.state, trace |-> h.trace,
     exc |-> h.exc]

NoHandling == [wrap |-> EmptyDict, state |-> EmptyDict, trace |-> <<>>, exc |-> ""]
NoIteration == Iteration("", NoMsg, "", "", FALSE, FALSE, NoHandling)

\* json.loads raises: the except clause dead-letters the message.
ReceiveUndecodable(agent_id, m, handler) ==
    /\ ~m.ok
    /\ subs' = [subs EXCEPT ![agent_id] = @ \ {m}]
    /\ dlq' = [dlq EXCEPT ![agent_id] = @ \cup {m}]
    /\ settleLog' = Settled(agent_id, m, "dead_letter")
    /\ last' = Iteration(agent_id, m, handler, "dead_letter", FALSE, FALSE, NoHandling)
    /\ UNCHANGED <<busSeq, topicLog, handlerRuns>>

\* An abandon that takes the message off the topic for every reader.
ReceiveAbandonDrop(agent_id, m, handler) ==
    /\ m.ok
    /\ ~Addressed(agent_id, m)
    /\ subs' = [s \in DOMAIN subs |-> subs[s] \ {m}]
    /\ last' = Iteration(agent_id, m, handler, "abandon", FALSE, FALSE, NoHandling)
    /\ UNCHANGED <<busSeq, topicLog, dlq, settleLog, handlerRuns>>

\* to_agent differs from agent_id: abandon_message, the message stays available.
ReceiveAbandon(agent_id, m, handler) ==
    /\ m.ok
    /\ ~Addressed(agent_id, m)
    /\ last' = Iteration(agent_id, m, handler, "abandon", FALSE, FALSE, NoHandling)
    /\ UNCHANGED <<busSeq, topicLog, subs, dlq, settleLog, handlerRuns>>

\* A loop that completes the message whatever the handler did.
SettleAlwaysComplete(handler_raised) == "complete"

\* What the loop does once the handler is done: complete_message after it
\* returned, dead_letter_message when it raised.
SettleAfter(handler_raised) == IF handler_raised THEN "dead_letter" ELSE "complete"

\* to_agent equals agent_id: the handler is invoked, out is what it published,
\* then the message is settled.
ReceiveDispatch(agent_id, m, handler, handler_raised, out, h) ==
    /\ m.ok
    /\ Addressed(agent_id, m)
    /\ handlerRuns' = handlerRuns \cup {<<agent_id, m.seq>>}
    /\ busSeq' = busSeq + Len(out)
    /\ topicLog' = topicLog \cup BrokerMessages(out)
    /\ subs' = [s \in DOMAIN subs |->
                   (IF s = agent_id THEN subs[s] \ {m} ELSE subs[s])
                   \cup BrokerMessages(out)]
    /\ settleLog' = Settled(agent_id, m, SettleAfter(handler_raised))
    /\ dlq' = IF SettleAfter(handler_raised) = "dead_letter"
              THEN [dlq EXCEPT ![agent_id] = @ \cup {m}] ELSE dlq
    /\ last' = Iteration(agent_id, m, handler, SettleAfter(handler_raised), TRUE,
                       handler_raised, h)

\* A caller-supplied handler (as in test_shared_subscription.py) that returns
\* or raises.
ProbeReceive(agent_id, handler_raises) ==
    /\ Spent < MaxEvents
    /\ nProbe' = nProbe + 1
    /\ \E m \in subs[agent_id] :
          \/ ReceiveUndecodable(agent_id, m, "caller")
          \/ ReceiveAbandon(agent_id, m, "caller")
          \/ ReceiveDispatch(agent_id, m, "caller", handler_raises, <<>>, NoHandling)
    /\ UNCHANGED <<envVars, storeVars, cases, nExternal, su, cd, fnVars>>

(***************************************************************************)
(* handle_message.  S is the storage it writes, [stateStore, taskStore,    *)
(* convStore, txnStore, a2aTasks]; fault names the one call that raises    *)
(* during this handling, "none" when none does.                            *)
(***************************************************************************)
StorageFaults == {"save_conversation", "save_task", "sense", "save_task_completed"}
LlmFaults == {"perceive", "plan", "learn"}

\* One node of the graph applied to the cycle so far, acc = [state, S, out, raised].
RunNode(node, acc, w, fault, hasLlm, now) ==
    CASE node = "sense" ->
            IF fault = "sense" THEN [acc EXCEPT !.raised = TRUE]
            ELSE [acc EXCEPT !.state = sense_node(@, w, acc.S.taskStore, acc.S.convStore)]
      [] node = "perceive" ->
            [acc EXCEPT !.state = perceive_node(@, hasLlm, fault = "perceive")]
      [] node = "plan" ->
            [acc EXCEPT !.state = plan_node(@, hasLlm, fault = "plan")]
      [] node = "execute" ->
            IF graph.execute = EXEC_PLACEHOLDER
            THEN [acc EXCEPT !.state = execute_node(@)]
            ELSE LET cap == execute_task_from_state(
                                [stateStore |-> acc.S.stateStore,
                                 txnStore |-> acc.S.txnStore,
                                 a2aTasks |-> acc.S.a2aTasks, out |-> acc.out],
                                w, acc.state, now, hasLlm, fault = "summary")
                 IN  [acc EXCEPT !.state = deep_execute_node(@, cap, now),
                                 !.S.stateStore = cap.W.stateStore,
                                 !.S.txnStore = cap.W.txnStore,
                                 !.S.a2aTasks = cap.W.a2aTasks,
                                 !.out = cap.W.out]
      [] OTHER ->
            LET r == learn_node(acc.state, hasLlm, fault = "learn")
            IN  [acc EXCEPT !.state = r.state,
                            !.S.convStore =
                                IF r.saved = NoneRec THEN @
                                ELSE save_conversation(@, r.saved.conversation_id,
                                                       r.saved.entry)]

\* graph.ainvoke: the nodes along the edges from the entry point to END (five
\* nodes, each with one outgoing edge); an exception raised by a node ends
\* the run.
RunStep(node, acc, w, fault, hasLlm, now) ==
    IF acc.raised THEN acc ELSE RunNode(node, acc, w, fault, hasLlm, now)

RunGraph(entry, acc, w, fault, hasLlm, now) ==
    LET e == graph.edge
    IN  RunStep(e[e[e[e[entry]]]],
            RunStep(e[e[e[entry]]],
                RunStep(e[e[entry]],
                    RunStep(e[entry],
                        RunStep(entry, acc, w, fault, hasLlm, now),
                        w, fault, hasLlm, now),
                    w, fault, hasLlm, now),
                w, fault, hasLlm, now),
            w, fault, hasLlm, now)

\* handle_message from the return of run_cycle on: S0 is the storage before
\* the handler, S1 after save_conversation, ran the cycle's outcome.  The
\* result is [S, out, state, trace, exc]; trace lists the storage writes, the
\* cycle and the dispatch in the order they were done.
handle_message_tail(w, wr, S0, S1, ran, fault, now) ==
    LET result == HandleResult(ran.state)
        error(text) == IF Truthy(wr.from_agent)
                       THEN <<to_dict(ErrorWrapper(w, wr, text, now))>> ELSE <<>>
    IN  CASE fault = "save_conversation" ->
                [S |-> S0, out |-> error("save_conversation failed"), wrap |-> wr,
                 state |-> EmptyDict, trace |-> <<"except">>,
                 exc |-> "save_conversation failed"]
          [] fault = "save_task" ->
                [S |-> S1, out |-> error("save_task failed"), wrap |-> wr,
                 state |-> EmptyDict, trace |-> <<"save_conversation", "except">>,
                 exc |-> "save_task failed"]
          [] ran.raised ->
                [S |-> ran.S, out |-> ran.out \o error("sense failed"), wrap |-> wr,
                 state |-> ran.state,
                 trace |-> <<"save_conversation", "save_task:processing", "cycle",
                             "except">>,
                 exc |-> "sense failed"]
          [] fault = "save_task_completed" ->
                [S |-> ran.S, out |-> ran.out \o error("save_task failed"), wrap |-> wr,
                 state |-> ran.state,
                 trace |-> <<"save_conversation", "save_task:processing", "cycle",
                             "except">>,
                 exc |-> "save_task failed"]
          [] OTHER ->
                [S |-> [ran.S EXCEPT !.taskStore =
                          save_task(@, w, HTaskId(wr),
                              [task_id |-> HTaskId(wr), case_id |-> HCaseId(wr),
                               message |-> to_dict(wr), result |-> result,
                               deep_agent_state |->
                                   [perception |-> ran.state.perception,
                                    plan |-> ran.state.plan,
                                    learning |-> ran.state.learning],
                               status |-> "completed", timestamp |-> now])],
                 out |-> ran.out \o
                         (IF Truthy(wr.from_agent)
                          THEN <<to_dict(ResponseWrapper(w, wr, result, now))>>
                          ELSE <<>>),
                 wrap |-> wr, state |-> ran.state,
                 trace |-> <<"save_conversation", "save_task:processing", "cycle",
                             "save_task:completed", "respond">>,
                 exc |-> ""]

\* A handler that starts the cycle without the "processing" task record.
handle_message_unrecorded(w, wr, S0, fault, hasLlm, now) ==
    LET S1 == [S0 EXCEPT !.convStore =
                  save_conversation(@, HConversationId(wr),
                      [id |-> HTaskId(wr), from_agent |-> wr.from_agent,
                       to_agent |-> wr.to_agent,
                       message |-> message_to_dict(wr.message),
                       payload |-> wr.payload, timestamp |-> now])]
    IN  handle_message_tail(w, wr, S0, S1,
            RunGraph(graph.entry,
                [state |-> run_cycle_state(w, initial_state(wr, now)),
                 S |-> S1, out |-> <<>>, raised |-> FALSE],
                w, fault, hasLlm, now),
            fault, now)

\* handle_message up to run_cycle: save_conversation, save_task, the cycle.
handle_message(w, wr, S0, fault, hasLlm, now) ==
    LET S1 == [S0 EXCEPT !.convStore =
                  save_conversation(@, HConversationId(wr),
                      [id |-> HTaskId(wr), from_agent |-> wr.from_agent,
                       to_agent |-> wr.to_agent,
                       message |-> message_to_dict(wr.message),
                       payload |-> wr.payload, timestamp |-> now])]
    IN  handle_message_tail(w, wr, S0, S1,
            RunGraph(graph.entry,
                [state |-> run_cycle_state(w, initial_state(wr, now)),
                 S |-> [S1 EXCEPT !.taskStore =
                          save_task(@, w, HTaskId(wr),
                              [task_id |-> HTaskId(wr), case_id |-> HCaseId(wr),
                               message |-> to_dict(wr), status |-> "processing",
                               timestamp |-> now])],
                 out |-> <<>>, raised |-> FALSE],
                w, fault, hasLlm, now),
            fault, now)

HandleFaults(w, m) ==
    {"none"} \cup
    (IF Spent < MaxEvents /\ m.ok /\ ~DecodeRaises(m.data)
     THEN StorageFaults \cup (IF llm THEN LlmFaults ELSE {})
          \cup (IF llm /\ w = SCAP_AGENT_ID /\ graph.execute = EXEC_OVERRIDE
                THEN {"summary"} ELSE {})
     ELSE {})

(***************************************************************************)
(* The worker: BaseAgent.start's loop calls receive_messages with          *)
(* _handle_message_wrapper as the handler.                                 *)
(***************************************************************************)
\* _handle_message_wrapper: decode, await handle_message; every exception is
\* caught and logged, so the wrapper returns.  [raised, h] with h the
\* outcome of handle_message.
handle_message_wrapper(w, m, S0, fault, hasLlm, now) ==
    IF DecodeRaises(m.data)
    THEN [raised |-> FALSE,
          h |-> [S |-> S0, out |-> <<>>, wrap |-> EmptyDict, state |-> EmptyDict,
                 trace |-> <<>>, exc |-> "decode failed"]]
    ELSE [raised |-> FALSE,
          h |-> handle_message(w, DecodeWrapper(m.data, now), S0, fault, hasLlm, now)]

WorkerReceive(w) ==
    \E m \in subs[w] :
       \/ /\ ReceiveUndecodable(w, m, "agent")
          /\ UNCHANGED <<envVars, storeVars, entryVars, su, cd, fnVars>>
       \/ /\ ReceiveAbandon(w, m, "agent")
          /\ UNCHANGED <<envVars, storeVars, entryVars, su, cd, fnVars>>
       \/ /\ m.ok
          /\ Addressed(w, m)
          /\ \E fault \in HandleFaults(w, m) :
             \E r \in {handle_message_wrapper(w, m,
                          [stateStore |-> stateStore, taskStore |-> taskStore,
                           convStore |-> convStore, txnStore |-> txnStore,
                           a2aTasks |-> a2aTasks],
                          fault, llm, Now)} :
                /\ faults' = IF fault = "none" THEN faults ELSE faults + 1
                /\ stateStore' = r.h.S.stateStore
                /\ taskStore' = r.h.S.taskStore
                /\ convStore' = r.h.S.convStore
                /\ txnStore' = r.h.S.txnStore
                /\ a2aTasks' = r.h.S.a2aTasks
                /\ ReceiveDispatch(w, m, "agent", r.raised, r.h.out, r.h)
          /\ UNCHANGED <<clock, uuidCtr, llm, graph, entryVars, su, cd, fnVars>>

(***************************************************************************)
(* The processes that call StateManager.update_state, and what they pass.  *)
(***************************************************************************)
Callers == {"p1", "p2"}
Namespaces == {"orchestration", ORCHESTRATION_AGENT_ID}
StateIds == {"conv-1", "conv-2"}
UpdateInputs ==
    {[status |-> "extracting"],
     [summary |-> "two flagged", note |-> "not a field"]}

NoCall == [pc |-> "idle", agent_id |-> "", state_id |-> "", updates |-> EmptyDict,
           current |-> EmptyDict, ret |-> EmptyDict, loadAt |-> 0, saveAt |-> 0,
           n |-> 0]

(***************************************************************************)
(* One wrapper on its way from the worker that builds it to the worker     *)
(* that decodes it.                                                        *)
(***************************************************************************)
NoCodec == [pc |-> "none", original |-> EmptyDict, encoded |-> EmptyDict,
            decoded |-> EmptyDict]

(***************************************************************************)
(* One screening: the case and the transactions of the payload, and the    *)
(* results record once the transactions are screened.                      *)
(***************************************************************************)
NoScreen == [pc |-> "none", case_id |-> "", transactions |-> <<>>,
             results |-> EmptyDict]

(***************************************************************************)
(* BaseAgent.start of one worker: self.running is False after             *)
(* construction and start() has not been called.                           *)
(***************************************************************************)
NotStarted == [pc |-> "start", running |-> FALSE, fails |-> 0]

(***************************************************************************)
(* SpecTxn: callers of one storage client saving and reading transactions. *)
(***************************************************************************)
TxCases == {"CASE-001", "CASE-002"}
Backends == {"postgres", "cosmos"}
\* Transaction lists: two files as the extraction worker reads them, whose
\* transaction_id values overlap, and one list without transaction_id.
TxInputs == {FileContent(f) : f \in FilePaths} \cup {<<[id |-> "1", amount |-> 10]>>}
NoClient == [backend |-> "", saved |-> [c \in TxCases |-> <<>>],
             got |-> [case_id |-> "", ret |-> {}]]

(***************************************************************************)
(* The entry worker is serving no request.                                 *)
(***************************************************************************)
NoRequest == [pc |-> 0, case_id |-> "", file_path |-> "", conversation_id |-> "",
              task_id |-> ""]

(***************************************************************************)
(* Spec: the pipeline.                                                     *)
(***************************************************************************)
\* The fields after construction, apart from the compiled graph, the
\* transactions handed to a screening and the position of start().
Constructed ==
    /\ clock = 0
    /\ uuidCtr = 0
    /\ llm \in BOOLEAN
    /\ faults = 0
    /\ busSeq = 0
    /\ topicLog = {}
    /\ subs = [w \in WorkerIds |-> {}]
    /\ dlq = [w \in WorkerIds |-> {}]
    /\ settleLog = EmptyDict
    /\ last = NoIteration
    /\ handlerRuns = {}
    /\ stateStore = EmptyDict
    /\ taskStore = EmptyDict
    /\ convStore = EmptyDict
    /\ txnStore = EmptyDict
    /\ a2aTasks = EmptyDict
    /\ cases = <<>>
    /\ nExternal = 0
    /\ nProbe = 0
    /\ su = [writes |-> 0, call |-> [c \in Callers |-> NoCall]]
    /\ cd = NoCodec
    /\ lp = [w \in WorkerIds |-> {}]
    /\ rq = NoRequest
    /\ tx = NoClient

Init ==
    /\ Constructed
    /\ graph = Graph
    /\ sc = NoScreen
    /\ starts = [w \in WorkerIds |-> NotStarted]

Next ==
    \/ \E c \in SubmitCases : transaction_review(c, CaseFile(c))
    \/ \E x \in ExternalInputs : ExternalSend(x[1], x[2])
    \/ \E a \in WorkerIds, r \in BOOLEAN : ProbeReceive(a, r)
    \/ \E w \in WorkerIds : WorkerReceive(w)

Spec == Init /\ [][Next]_vars

(***************************************************************************)
(* SpecFair: receive_messages of every worker, called again and again by   *)
(* the loop of start, for any message_handler: all the loop sees of the    *)
(* handler is that it returns or raises.  The receiver of a worker yields  *)
(* the messages of the worker's subscription in turn, so an iteration on a *)
(* message that stays available is not put off forever.                    *)
(***************************************************************************)
\* The messages sent to the topic: wrappers for two workers, and a body that
\* is not JSON.
FairInputs ==
    {<<EVALUATOR_AGENT_ID, "wrapper">>, <<SCAP_AGENT_ID, "wrapper">>,
     <<EVALUATOR_AGENT_ID, "notjson">>}

\* One iteration of the loop of worker w, on the message numbered q.
LoopIteration(w, q) ==
    /\ \E m \in {x \in subs[w] : x.seq = q} :
          \/ ReceiveUndecodable(w, m, "agent")
          \/ ReceiveAbandon(w, m, "agent")
          \/ \E handler_raised \in BOOLEAN :
                ReceiveDispatch(w, m, "agent", handler_raised, <<>>, NoHandling)
    /\ UNCHANGED <<envVars, storeVars, entryVars, su, cd, fnVars>>

NextFair ==
    \/ \E x \in FairInputs : ExternalSend(x[1], x[2])
    \/ \E w \in WorkerIds, q \in 1..MaxEvents : LoopIteration(w, q)

SpecFair ==
    /\ Init
    /\ [][NextFair]_vars
    /\ \A w \in WorkerIds : \A q \in 1..MaxEvents : WF_vars(LoopIteration(w, q))

(***************************************************************************)
(* SpecState: processes calling StateManager.update_state.  Within one     *)
(* call load_state and save_state are two requests to the database, and    *)
(* requests of other processes may be served between them.                 *)
(***************************************************************************)
\* The orchestration agent creates the Workflow State of a new conversation.
StCreate(state_id) ==
    /\ ~HasState(stateStore, "orchestration", state_id)
    /\ clock < MaxClock
    /\ clock' = clock + 1
    /\ stateStore' = create_initial_state(stateStore, "CASE-" \o state_id, "three.json",
                                          state_id, clock + 1)
    /\ UNCHANGED <<uuidCtr, llm, graph, faults, busVars, taskStore, convStore, txnStore,
                   a2aTasks, entryVars, su, cd, fnVars>>

\* update_state up to `if not current_state`: load_state and the raise.
StLoad(c, agent_id, state_id, updates) ==
    /\ su.call[c].pc # "loaded"
    /\ su.call[c].n < MaxCalls
    /\ IF StateNotFound(stateStore, agent_id, state_id)
       THEN su' = [su EXCEPT !.call[c] =
                      [NoCall EXCEPT !.pc = "raised", !.agent_id = agent_id,
                                     !.state_id = state_id, !.updates = updates,
                                     !.loadAt = su.writes, !.n = su.call[c].n + 1]]
       ELSE su' = [su EXCEPT !.call[c] =
                      [NoCall EXCEPT !.pc = "loaded", !.agent_id = agent_id,
                                     !.state_id = state_id, !.updates = updates,
                                     !.current = CurrentState(stateStore, agent_id,
                                                              state_id),
                                     !.loadAt = su.writes, !.n = su.call[c].n + 1]]
    /\ UNCHANGED <<envVars, busVars, storeVars, entryVars, cd, fnVars>>

\* update_state from the merge on: the keys of the schema are merged into
\* the loaded record, the clock is read, the whole record is written back
\* and returned.
StSave(c) ==
    /\ su.call[c].pc = "loaded"
    /\ clock < MaxClock
    /\ clock' = clock + 1
    /\ LET new == MergeUpdates(su.call[c].current, su.call[c].updates, clock + 1)
       IN  /\ stateStore' = save_state(stateStore, su.call[c].agent_id,
                                       su.call[c].state_id, new)
           /\ su' = [su EXCEPT !.writes = @ + 1,
                               !.call[c].pc = "done",
                               !.call[c].ret = new,
                               !.call[c].saveAt = su.writes + 1]
    /\ UNCHANGED <<uuidCtr, llm, graph, faults, busVars, taskStore, convStore, txnStore,
                   a2aTasks, entryVars, cd, fnVars>>

InitState ==
    /\ Init
    /\ llm = FALSE

NextState ==
    \/ \E i \in StateIds : StCreate(i)
    \/ \E c \in Callers, a \in Namespaces, i \in StateIds, u \in UpdateInputs :
          StLoad(c, a, i, u)
    \/ \E c \in Callers : StSave(c)

SpecState == InitState /\ [][NextState]_vars

(***************************************************************************)
(* SpecRace: the evaluation worker and the screening worker each call      *)
(* update_state on the Workflow State of a case.  The evaluation worker    *)
(* sends its wrapper to the screening worker before it calls update_state, *)
(* so the two calls are not ordered.                                       *)
(***************************************************************************)
\* update_state(..., {"status": "evaluating"})
EvaluatorUpdate == [status |-> "evaluating"]

\* update_state(..., {"scap_results": results, "summary": summary,
\* "status": "completed"})
ScapUpdate ==
    [scap_results |-> [total_transactions |-> 3, flagged_count |-> 1],
     summary |-> "one flagged",
     status |-> "completed"]

\* The process of each worker and what it passes.
RaceCalls == {<<"p1", EvaluatorUpdate>>, <<"p2", ScapUpdate>>}

NextRace ==
    \/ \E i \in StateIds : StCreate(i)
    \/ \E x \in RaceCalls, i \in StateIds : StLoad(x[1], "orchestration", i, x[2])
    \/ \E c \in Callers : StSave(c)

SpecRace == InitState /\ [][NextRace]_vars

(***************************************************************************)
(* SpecCodec: a wrapper is built by its sender, encoded with to_dict /      *)
(* to_json, and decoded by _handle_message_wrapper of the receiver; time   *)
(* passes in between.                                                      *)
(***************************************************************************)
CodecSenders == {ORCHESTRATION_AGENT_ID, TEST_SENDER}
CodecReceivers == {EXTRACTOR_AGENT_ID, SCAP_AGENT_ID}
CodecTaskIds == {None, "task-1"}
CodecRoles == {"user", "agent"}
CodecPayloads == {EmptyDict, [case_id |-> "CASE-001", action |-> "test"]}

\* datetime.utcnow() moves on.
CdTick ==
    /\ clock < MaxClock
    /\ clock' = clock + 1
    /\ UNCHANGED <<uuidCtr, llm, graph, faults, busVars, storeVars, entryVars, su, cd, fnVars>>

CdBuild(from_agent, to_agent, task_id, role, payload) ==
    /\ cd.pc = "none"
    /\ cd' = [cd EXCEPT
                 !.pc = "built",
                 !.original = A2AMessageWrapper(
                                  create_a2a_message("msg-1", role, "text", "conv-1",
                                                     task_id),
                                  from_agent, to_agent, payload, Now)]
    /\ UNCHANGED <<envVars, busVars, storeVars, entryVars, su, fnVars>>

\* to_dict, and json.dumps / json.loads of it on the way.
CdEncode ==
    /\ cd.pc = "built"
    /\ cd' = [cd EXCEPT !.pc = "sent", !.encoded = to_dict(cd.original)]
    /\ UNCHANGED <<envVars, busVars, storeVars, entryVars, su, fnVars>>

CdDecode ==
    /\ cd.pc = "sent"
    /\ cd' = IF DecodeRaises(cd.encoded)
             THEN [cd EXCEPT !.pc = "failed"]
             ELSE [cd EXCEPT !.pc = "decoded",
                             !.decoded = DecodeWrapper(cd.encoded, Now)]
    /\ UNCHANGED <<envVars, busVars, storeVars, entryVars, su, fnVars>>

InitCodec ==
    /\ Init
    /\ llm = FALSE

NextCodec ==
    \/ CdTick
    \/ \E f \in CodecSenders, t \in CodecReceivers, k \in CodecTaskIds,
          r \in CodecRoles, p \in CodecPayloads : CdBuild(f, t, k, r, p)
    \/ CdEncode
    \/ CdDecode

SpecCodec == InitCodec /\ [][NextCodec]_vars

(***************************************************************************)
(* SpecScreen: the screening worker's rule engine and summary applied to   *)
(* the transactions of a payload.                                          *)
(***************************************************************************)
ScreenCases == {"CASE-001", "CASE-002"}
ScreenTxns ==
    {[transaction_id |-> "T1", country |-> "ir", jurisdiction |-> "EU", amount |-> 5000],
     [transaction_id |-> "T2", country |-> "DE", jurisdiction |-> "offshore",
      amount |-> 1200],
     [transaction_id |-> "T3", country |-> "IR", jurisdiction |-> "EU", amount |-> 1000],
     [transaction_id |-> "T4", country |-> "DE", jurisdiction |-> "EU", amount |-> 7000]}

\* The loop over the transactions, the summary and the results record.
ScScreen(llmRaises) ==
    /\ sc.pc = "input"
    /\ sc' = [sc EXCEPT !.pc = "done",
                        !.results = scap_screen(sc.transactions, sc.case_id, Now,
                                                llm, llmRaises)]
    /\ UNCHANGED <<envVars, busVars, storeVars, entryVars, su, cd, lp, starts, rq, tx>>

InitScreen ==
    /\ Constructed
    /\ graph = Graph
    /\ starts = [w \in WorkerIds |-> NotStarted]
    /\ sc \in {[NoScreen EXCEPT !.pc = "input", !.case_id = c, !.transactions = t] :
                  c \in ScreenCases,
                  t \in UNION {[1..n -> ScreenTxns] : n \in 0..MaxTxns}}

NextScreen ==
    \E llmRaises \in (IF llm THEN BOOLEAN ELSE {FALSE}) : ScScreen(llmRaises)

SpecScreen == InitScreen /\ [][NextScreen]_vars

(***************************************************************************)
(* SpecLoop: receive_messages step by step.  The body of `async for        *)
(* message in receiver` awaits the handler, then awaits the settlement;    *)
(* the receiver is asked for the next message when the body is done.       *)
(***************************************************************************)
\* A loop that asks for the next message while a handler is running.
LoopIdleAlways(w) == TRUE

\* The loop of worker w is at `async for`: the body is not running.
LoopIdle(w) == lp[w] = {}

\* The receiver yields a message: json.loads and the to_agent test; a message
\* for this worker is handed to the handler.
LpReceive(w) ==
    /\ LoopIdle(w)
    /\ \E m \in subs[w] \ {x.msg : x \in lp[w]} :
          \/ /\ ReceiveUndecodable(w, m, "agent")
             /\ UNCHANGED <<envVars, storeVars, entryVars, su, cd, fnVars>>
          \/ /\ ReceiveAbandon(w, m, "agent")
             /\ UNCHANGED <<envVars, storeVars, entryVars, su, cd, fnVars>>
          \/ /\ m.ok
             /\ Addressed(w, m)
             /\ lp' = [lp EXCEPT ![w] = @ \cup {[msg |-> m, pc |-> "handler",
                                                raised |-> FALSE]}]
             /\ UNCHANGED <<envVars, busVars, storeVars, entryVars, su, cd, sc, starts, rq, tx>>

\* `await message_handler(data)`: _handle_message_wrapper runs to its end.
LpHandler(w) ==
    \E x \in lp[w] :
       /\ x.pc = "handler"
       /\ \E r \in {handle_message_wrapper(w, x.msg,
                       [stateStore |-> stateStore, taskStore |-> taskStore,
                        convStore |-> convStore, txnStore |-> txnStore,
                        a2aTasks |-> a2aTasks],
                       "none", llm, Now)} :
             /\ stateStore' = r.h.S.stateStore
             /\ taskStore' = r.h.S.taskStore
             /\ convStore' = r.h.S.convStore
             /\ txnStore' = r.h.S.txnStore
             /\ a2aTasks' = r.h.S.a2aTasks
             /\ Publish(r.h.out)
             /\ lp' = [lp EXCEPT ![w] = (@ \ {x}) \cup
                          {[x EXCEPT !.pc = "settle", !.raised = r.raised]}]
       /\ handlerRuns' = handlerRuns \cup {<<w, x.msg.seq>>}
       /\ UNCHANGED <<envVars, dlq, settleLog, last, entryVars, su, cd, sc, starts, rq, tx>>

\* `await receiver.complete_message(message)`, or dead_letter_message in the
\* except clause.
LpSettle(w) ==
    \E x \in lp[w] :
       /\ x.pc = "settle"
       /\ subs' = [subs EXCEPT ![w] = @ \ {x.msg}]
       /\ settleLog' = Settled(w, x.msg, SettleAfter(x.raised))
       /\ dlq' = IF SettleAfter(x.raised) = "dead_letter"
                 THEN [dlq EXCEPT ![w] = @ \cup {x.msg}] ELSE dlq
       /\ last' = Iteration(w, x.msg, "agent", SettleAfter(x.raised), TRUE, x.raised,
                            NoHandling)
       /\ lp' = [lp EXCEPT ![w] = @ \ {x}]
       /\ UNCHANGED <<envVars, busSeq, topicLog, handlerRuns, storeVars, entryVars,
                      su, cd, sc, starts, rq, tx>>

\* The messages on the topic while the loops are followed step by step.
LoopInputs ==
    {<<EVALUATOR_AGENT_ID, "wrapper">>, <<SCAP_AGENT_ID, "wrapper">>,
     <<EVALUATOR_AGENT_ID, "notjson">>}

NextLoop ==
    \/ \E x \in LoopInputs : ExternalSend(x[1], x[2])
    \/ \E w \in WorkerIds : LpReceive(w)
    \/ \E w \in WorkerIds : LpHandler(w)
    \/ \E w \in WorkerIds : LpSettle(w)

SpecLoop == Init /\ [][NextLoop]_vars

(***************************************************************************)
(* SpecStart: BaseAgent.start up to its loop.                              *)
(***************************************************************************)
\* The positional parameters ensure_subscription_exists declares besides
\* self, and the arguments start() passes.
EnsureParams == <<"agent_id">>
EnsureArgs == <<>>

\* A call whose arguments do not fill the required parameters raises
\* TypeError before the body runs.
CallRaises(params, args) == Len(args) # Len(params)

\* start(): self.running = True, then the call of ensure_subscription_exists.
StartBegin(w) ==
    /\ starts[w].pc = "start"
    /\ starts' = [starts EXCEPT ![w].pc = "ensure", ![w].running = TRUE]
    /\ UNCHANGED <<envVars, busVars, storeVars, entryVars, su, cd, sc, lp, rq, tx>>

\* `await self.asb_client.ensure_subscription_exists()`: the TypeError of the
\* call leaves start(); a call that returns lets start() go on to its loop.
StartEnsure(w) ==
    /\ starts[w].pc = "ensure"
    /\ starts' = [starts EXCEPT ![w].pc = IF CallRaises(EnsureParams, EnsureArgs)
                                  THEN "raised" ELSE "loop"]
    /\ UNCHANGED <<envVars, busVars, storeVars, entryVars, su, cd, sc, lp, rq, tx>>

\* stop(): self.running = False.
stop(w) ==
    /\ starts[w].running
    /\ starts' = [starts EXCEPT ![w].running = FALSE]
    /\ UNCHANGED <<envVars, busVars, storeVars, entryVars, su, cd, sc, lp, rq, tx>>

NextStart ==
    \/ \E w \in WorkerIds : StartBegin(w)
    \/ \E w \in WorkerIds : StartEnsure(w)
    \/ \E w \in WorkerIds : stop(w)

SpecStart == Init /\ [][NextStart]_vars

(***************************************************************************)
(* SpecRetry: the loop of BaseAgent.start from its first test of           *)
(* self.running on: receive_messages is awaited inside try, and an         *)
(* exception it raises is answered by asyncio.sleep(5).                    *)
(***************************************************************************)
\* A loop that gives up once a receive call has raised before.
on_receive_error_bounded(fails) == IF fails >= 1 THEN "raised" ELSE "sleep"

\* `except Exception`: log, then `await asyncio.sleep(5)`, whatever the number
\* of calls that have raised.
on_receive_error(fails) == "sleep"

\* `while self.running` is false: start() returns.
StartExit(w) ==
    /\ starts[w].pc = "loop"
    /\ ~starts[w].running
    /\ starts' = [starts EXCEPT ![w].pc = "done"]
    /\ UNCHANGED <<envVars, busVars, storeVars, entryVars, su, cd, sc, lp, rq, tx>>

\* `await self.asb_client.receive_messages(...)`: the call returns, or it
\* raises the exception receive_messages re-raises.
StartReceive(w, raises) ==
    /\ starts[w].pc = "loop"
    /\ starts[w].running
    /\ raises => starts[w].fails < MaxRetries
    /\ starts' = [starts EXCEPT ![w].pc = IF raises THEN on_receive_error(starts[w].fails)
                                  ELSE "loop",
                        ![w].fails = IF raises THEN @ + 1 ELSE @]
    /\ UNCHANGED <<envVars, busVars, storeVars, entryVars, su, cd, sc, lp, rq, tx>>

\* asyncio.sleep(5) returns: back to the test of self.running.
StartSleep(w) ==
    /\ starts[w].pc = "sleep"
    /\ starts' = [starts EXCEPT ![w].pc = "loop"]
    /\ UNCHANGED <<envVars, busVars, storeVars, entryVars, su, cd, sc, lp, rq, tx>>

InitRetry ==
    /\ Constructed
    /\ graph = Graph
    /\ sc = NoScreen
    /\ starts = [w \in WorkerIds |-> [NotStarted EXCEPT !.pc = "loop", !.running = TRUE]]

NextRetry ==
    \/ \E w \in WorkerIds, raises \in BOOLEAN : StartReceive(w, raises)
    \/ \E w \in WorkerIds : StartSleep(w)
    \/ \E w \in WorkerIds : stop(w)
    \/ \E w \in WorkerIds : StartExit(w)

SpecRetry == InitRetry /\ [][NextRetry]_vars

(***************************************************************************)
(* SpecCap: the pipeline with the worker's capability in the EXECUTE       *)
(* position of the cycle: the graph holds the node BaseAgent.__init__      *)
(* assigns (_deep_execute_node), which awaits execute_task_from_state.     *)
(* Under Spec the compiled graph holds the placeholder and no capability   *)
(* is ever invoked; the properties of EXECUTE are about this graph.        *)
(***************************************************************************)
InitCap ==
    /\ Constructed
    /\ graph = build_workflow(BaseAgentInit.execute_node)
    /\ sc = NoScreen
    /\ starts = [w \in WorkerIds |-> NotStarted]

SpecCap == InitCap /\ [][Next]_vars

\* create_storage_client: the backend the configuration names.
create_storage_client(b) ==
    /\ tx.backend = ""
    /\ tx' = [tx EXCEPT !.backend = b]
    /\ UNCHANGED <<envVars, busVars, storeVars, entryVars, su, cd, sc, lp, starts, rq>>

\* save_transactions as the extraction worker calls it: once per handling of
\* a case's wrapper, with the content of the case's file (a redelivery saves
\* the same list again).
TxSave(case_id, transactions) ==
    /\ tx.backend # ""
    /\ tx.saved[case_id] \in {<<>>, transactions}
    /\ txnStore' = IF tx.backend = "postgres"
                   THEN pg_save_transactions(txnStore, case_id, transactions)
                   ELSE save_transactions(txnStore, case_id, transactions)
    /\ tx' = [tx EXCEPT !.saved[case_id] = transactions, !.got = NoClient.got]
    /\ UNCHANGED <<envVars, busVars, stateStore, taskStore, convStore, a2aTasks,
                   entryVars, su, cd, sc, lp, starts, rq>>

TxGet(case_id) ==
    /\ tx.backend # ""
    /\ tx' = [tx EXCEPT !.got = [case_id |-> case_id,
                                 ret |-> get_transactions(txnStore, case_id)]]
    /\ UNCHANGED <<envVars, busVars, storeVars, entryVars, su, cd, sc, lp, starts, rq>>

NextTxn ==
    \/ \E b \in Backends : create_storage_client(b)
    \/ \E c \in TxCases, t \in TxInputs : TxSave(c, t)
    \/ \E c \in TxCases : TxGet(c)

SpecTxn == Init /\ [][NextTxn]_vars

(***************************************************************************)
(* SpecEntry: transaction_review statement by statement, the workers       *)
(* running their loops meanwhile.  An exception raised by one of its calls *)
(* ends the request with HTTP 500.                                         *)
(***************************************************************************)
\* An entry worker that sends the wrapper before it creates the state.
EntryOrderSwapped == <<"send_message", "create_initial_state">>

\* The storage and bus calls of transaction_review, in the order of the code.
EntryOrder == <<"create_initial_state", "send_message">>

\* The request arrives: conversation_id and task_id are drawn.
EntryBegin(case_id) ==
    /\ rq.pc = 0
    /\ Spent < MaxEvents
    /\ uuidCtr' = uuidCtr + 2
    /\ rq' = [pc |-> 1, case_id |-> case_id, file_path |-> CaseFile(case_id),
              conversation_id |-> Uuid(uuidCtr + 1), task_id |-> Uuid(uuidCtr + 2)]
    /\ UNCHANGED <<clock, llm, graph, faults, busVars, storeVars, entryVars, su, cd,
                   sc, lp, starts, tx>>

\* The next call of the request returns or raises.
EntryStep(raises) ==
    /\ rq.pc \in DOMAIN EntryOrder
    /\ IF raises
       THEN /\ faults' = faults + 1
            /\ rq' = NoRequest
            /\ UNCHANGED <<stateStore, busSeq, topicLog, subs, cases>>
       ELSE /\ faults' = faults
            /\ IF EntryOrder[rq.pc] = "create_initial_state"
               THEN /\ stateStore' = create_initial_state(stateStore, rq.case_id,
                                         rq.file_path, rq.conversation_id, Now)
                    /\ UNCHANGED <<busSeq, topicLog, subs>>
               ELSE /\ Publish(<<to_dict(extractor_wrapper(rq.case_id, rq.file_path,
                                            rq.conversation_id, rq.task_id))>>)
                    /\ UNCHANGED stateStore
            /\ rq' = IF rq.pc = Len(EntryOrder) THEN NoRequest
                     ELSE [rq EXCEPT !.pc = @ + 1]
            /\ cases' = IF rq.pc = Len(EntryOrder)
                        THEN Append(cases, [case_id |-> rq.case_id,
                                            file_path |-> rq.file_path,
                                            conversation_id |-> rq.conversation_id,
                                            task_id |-> rq.task_id])
                        ELSE cases
    /\ UNCHANGED <<clock, uuidCtr, llm, graph, dlq, settleLog, last, handlerRuns,
                   taskStore, convStore, txnStore, a2aTasks, nExternal, nProbe,
                   su, cd, sc, lp, starts, tx>>

NextEntry ==
    \/ \E c \in SubmitCases : EntryBegin(c)
    \/ \E raises \in BOOLEAN : EntryStep(raises)
    \/ \E w \in WorkerIds : WorkerReceive(w)

SpecEntry == Init /\ [][NextEntry]_vars

(***************************************************************************)
(* SpecChain: the stages one after the other.  A stage acts on a message   *)
(* addressed to it either as its capability alone, execute_task_from_state *)
(* applied to the cycle state run_cycle builds from the message, or as the *)
(* assembled worker, handle_message with the capability in the graph.  The *)
(* state store a stage reads may hold the case's Workflow State under the  *)
(* key the capabilities load, (ORCHESTRATION_AGENT_ID, conversation id or  *)
(* case id).                                                               *)
(***************************************************************************)
\* The store with the Workflow State of the state's case under the key
\* execute_task_from_state loads.
Stored(store, state) ==
    IF ~Truthy(CapCaseId(state))
       \/ LoadFound(store, ORCHESTRATION_AGENT_ID, CapConversationId(state))
    THEN store
    ELSE save_state(store, ORCHESTRATION_AGENT_ID, CapConversationId(state),
                    InitialState(CapCaseId(state),
                                 Get(CapPayload(state), "file_path", None),
                                 CapConversationId(state), Now))

\* _deep_execute_node on the cycle state of message m: the capability runs,
\* what it raises is caught and recorded.
ChainExecute(w, found) ==
    \E m \in subs[w] :
       /\ m.ok
       /\ ~DecodeRaises(m.data)
       /\ busSeq < MaxBus
       /\ \E wr \in {DecodeWrapper(m.data, Now)} :
          \E state \in {run_cycle_state(w, initial_state(wr, Now))} :
          \E cap \in {execute_task_from_state(
                         [stateStore |-> IF found THEN Stored(stateStore, state)
                                         ELSE stateStore,
                          txnStore |-> txnStore, a2aTasks |-> a2aTasks,
                          out |-> <<>>],
                         w, state, Now, llm, FALSE)} :
             /\ stateStore' = cap.W.stateStore
             /\ txnStore' = cap.W.txnStore
             /\ a2aTasks' = cap.W.a2aTasks
             /\ ReceiveDispatch(w, m, "capability", FALSE, cap.W.out,
                    [wrap |-> wr, state |-> deep_execute_node(state, cap, Now),
                     trace |-> <<"execute">>, exc |-> ""])
       /\ UNCHANGED <<envVars, taskStore, convStore, entryVars, su, cd, fnVars>>

\* The worker's loop hands m to _handle_message_wrapper; no call fails.
ChainHandle(w) ==
    \E m \in subs[w] :
       /\ m.ok
       /\ ~DecodeRaises(m.data)
       /\ busSeq < MaxBus
       /\ \E r \in {handle_message_wrapper(w, m,
                       [stateStore |-> Stored(stateStore,
                                          run_cycle_state(w,
                                              initial_state(DecodeWrapper(m.data, Now),
                                                            Now))),
                        taskStore |-> taskStore, convStore |-> convStore,
                        txnStore |-> txnStore, a2aTasks |-> a2aTasks],
                       "none", llm, Now)} :
             /\ stateStore' = r.h.S.stateStore
             /\ taskStore' = r.h.S.taskStore
             /\ convStore' = r.h.S.convStore
             /\ txnStore' = r.h.S.txnStore
             /\ a2aTasks' = r.h.S.a2aTasks
             /\ ReceiveDispatch(w, m, "agent", r.raised, r.h.out, r.h)
       /\ UNCHANGED <<envVars, entryVars, su, cd, fnVars>>

NextChain ==
    \/ \E c \in SubmitCases : transaction_review(c, CaseFile(c))
    \/ \E w \in WorkerIds, found \in BOOLEAN : ChainExecute(w, found)
    \/ \E w \in WorkerIds : ChainHandle(w)

SpecChain == InitCap /\ [][NextChain]_vars

(***************************************************************************)
(* Properties of the pipeline.                                             *)
(***************************************************************************)
ToAgent(m) == Get(m.data, "to_agent", "")
FromAgent(m) == Get(m.data, "from_agent", "")
Message(seq) == CHOOSE m \in topicLog : m.seq = seq
SettledAs(agent_id, m) == Get(settleLog, <<agent_id, m.seq>>, <<>>)

\* C1.  Routing: a receive loop registered as Y invokes its handler for a
\* message, and completes it, only when the message's to_agent is Y; a message
\* whose to_agent is another id is abandoned by Y: it stays on Y's
\* subscription, unsettled, and Y's handler is never invoked for it.
C1_Routing ==
    /\ \A r \in handlerRuns : ToAgent(Message(r[2])) = r[1]
    /\ \A k \in DOMAIN settleLog :
          settleLog[k][1] = "complete" => ToAgent(Message(k[2])) = k[1]
    /\ last.handled => ToAgent(last.msg) = last.agent
    /\ (last.agent # "" /\ last.msg.ok /\ ToAgent(last.msg) # last.agent) =>
          /\ last.outcome = "abandon"
          /\ ~last.handled
          /\ last.msg \in subs[last.agent]
          /\ <<last.agent, last.msg.seq>> \notin handlerRuns
          /\ SettledAs(last.agent, last.msg) = <<>>

\* A worker has just abandoned a message that its addressee has handled.
C1_Witness ==
    /\ last.outcome = "abandon"
    /\ ToAgent(last.msg) # last.agent
    /\ <<ToAgent(last.msg), last.msg.seq>> \in handlerRuns
    /\ SettledAs(ToAgent(last.msg), last.msg) = <<"complete">>

\* C3.  Dead-letter: when the handler invoked for a message addressed to the
\* receiver raises, the message is dead-lettered exactly once, it is neither
\* completed nor abandoned, and it is never again on the subscription the
\* loop consumes.
C3_DeadLetter ==
    /\ (last.handled /\ last.raised) =>
          /\ last.outcome = "dead_letter"
          /\ last.msg \in dlq[last.agent]
    /\ \A a \in DOMAIN dlq : \A m \in dlq[a] :
          /\ SettledAs(a, m) = <<"dead_letter">>
          /\ m \notin subs[a]

\* A handler has just raised for a message addressed to its receiver.
C3_Witness ==
    /\ last.handled
    /\ last.raised
    /\ ToAgent(last.msg) = last.agent
    /\ SettledAs(last.agent, last.msg) = <<"dead_letter">>

\* The error wrappers on the topic that answer inbound message m.
ErrorResponses(m) ==
    {r \in topicLog :
        /\ r.ok
        /\ ToAgent(r) = FromAgent(m)
        /\ FromAgent(r) = ToAgent(m)
        /\ Get(Get(r.data, "payload", EmptyDict), "status", "") = "failed"}

\* C4.  HandlerError: whenever a worker's processing of an inbound message
\* raises (a failing storage write, a failing wrapper decode), the inbound
\* message ends up dead-lettered, not completed, and if its from_agent is
\* non-empty an error response wrapper has been sent back to it.
C4_HandlerError ==
    (last.handler = "agent" /\ last.handled /\ last.exc # "") =>
        /\ SettledAs(last.agent, last.msg) = <<"dead_letter">>
        /\ last.msg \in dlq[last.agent]
        /\ Truthy(FromAgent(last.msg)) => ErrorResponses(last.msg) # {}

\* C5.  Deep Cycle totality: for every cycle a worker runs from
\* handle_message, the execution result the cycle holds after the EXECUTE
\* phase has a status equal to "success" or "error".
C5_CycleTotality ==
    (last.handled /\ DOMAIN last.state # {} /\
     \E i \in DOMAIN last.state.phases : last.state.phases[i] = "execute") =>
        /\ last.state.execution_results # <<>>
        /\ \A i \in DOMAIN last.state.execution_results :
              Get(last.state.execution_results[i], "status", None)
                  \in {"success", "error"}

\* The Workflow State create_initial_state stored for the i-th submission.
CaseStateKey(i) == StateKey("orchestration", cases[i].conversation_id)
CaseState(i) == stateStore[CaseStateKey(i)]

\* No worker has a message addressed to it left on its subscription.
Quiescent ==
    \A w \in WorkerIds : \A m \in subs[w] : m.ok /\ ToAgent(m) # w

\* C2.  End-to-end: for a submitted case, the three workers running their
\* loops, no transport or storage failure: once the workers have nothing
\* left to process, the case's Workflow State has status "completed" and
\* scap_results whose flagged_transactions are exactly the submitted
\* transactions the screening rule flags, flagged_count their number.
C2_EndToEnd ==
    \A i \in DOMAIN cases :
        (faults = 0 /\ nProbe = 0 /\ Quiescent) =>
            /\ CaseStateKey(i) \in DOMAIN stateStore
            /\ CaseState(i).status = "completed"
            /\ CaseState(i).scap_results # NoneRec
            /\ CaseState(i).scap_results.flagged_transactions
                   = SelectFlagged(FileContent(cases[i].file_path))
            /\ CaseState(i).scap_results.flagged_count
                   = Len(SelectFlagged(FileContent(cases[i].file_path)))

\* C10.  Status lookup: after a case with case id c has been submitted, the
\* status lookup for c finds the case's Workflow State and returns the
\* status and summary that state holds.
C10_StatusLookup ==
    \A i \in DOMAIN cases :
        /\ get_status_found(cases[i].case_id)
        /\ get_status(cases[i].case_id).status = CaseState(i).status
        /\ get_status(cases[i].case_id).summary = CaseState(i).summary

(***************************************************************************)
(* Properties of update_state.                                             *)
(***************************************************************************)
CallKey(call) == <<call.agent_id, call.state_id>>

\* C6.  update_state on a (namespace, id) under which no Workflow State is
\* stored fails with StateNotFound and writes nothing: the store is left as
\* it was and has no record for that id.
C6_UnknownId ==
    [][\A c \in Callers :
          (/\ su'.call[c].n = su.call[c].n + 1
           /\ CallKey(su'.call[c]) \notin DOMAIN stateStore) =>
              /\ su'.call[c].pc = "raised"
              /\ stateStore' = stateStore
              /\ CallKey(su'.call[c]) \notin DOMAIN stateStore']_vars

\* A call has failed on an id without record while another record is stored.
C6_Witness ==
    \E c \in Callers :
        /\ su.call[c].pc = "raised"
        /\ CallKey(su.call[c]) \notin DOMAIN stateStore
        /\ DOMAIN stateStore # {}

\* C7.  update_state on a known (namespace, id) stores and returns the record
\* it loaded with exactly the update's keys that are in the Workflow State
\* schema overwritten and a later timestamp; update keys outside the schema
\* are ignored, every other field keeps its value, and the records of all
\* other ids are unchanged.
C7_KnownId ==
    [][\A c \in Callers :
          (su.call[c].pc = "loaded" /\ su'.call[c].pc = "done") =>
              LET call == su.call[c]
                  old == call.current
                  ret == su'.call[c].ret
                  named == {k \in DOMAIN call.updates :
                               k \in {"case_id", "file_path", "transactions",
                                      "extracted_transactions", "scap_results",
                                      "summary", "status", "error",
                                      "conversation_id", "current_agent"}}
              IN  /\ CallKey(call) \in DOMAIN stateStore'
                  /\ stateStore'[CallKey(call)] = ret
                  /\ DOMAIN ret = DOMAIN old
                  /\ \A k \in DOMAIN ret \ {"timestamp"} :
                        ret[k] = IF k \in named THEN call.updates[k] ELSE old[k]
                  /\ ret.timestamp > old.timestamp
                  /\ DOMAIN stateStore' = DOMAIN stateStore
                  /\ \A other \in DOMAIN stateStore \ {CallKey(call)} :
                        stateStore'[other] = stateStore[other]]_vars

\* A call has written an update that named a key outside the schema, while
\* the record of another id is stored too.
C7_Witness ==
    \E c \in Callers :
        /\ su.call[c].pc = "done"
        /\ "note" \in DOMAIN su.call[c].updates
        /\ stateStore[CallKey(su.call[c])] = su.call[c].ret
        /\ su.call[c].ret.summary = "two flagged"
        /\ \E other \in DOMAIN stateStore : other # CallKey(su.call[c])

\* Two finished calls of different callers on the same record, with disjoint
\* update keys, whose writes were the last two: d wrote first, c second.
LastTwoWrites(c, d) ==
    /\ c # d
    /\ su.call[c].pc = "done"
    /\ su.call[d].pc = "done"
    /\ CallKey(su.call[c]) = CallKey(su.call[d])
    /\ DOMAIN su.call[c].updates \cap DOMAIN su.call[d].updates = {}
    /\ su.call[c].saveAt = su.writes
    /\ su.call[d].saveAt = su.writes - 1

\* C8.  Race: of two update_state calls on the same case with disjoint field
\* sets, when both load the record before either writes it back the final
\* record is the later writer's whole record and holds, for the earlier
\* writer's fields, what the later writer had loaded; when the later call
\* loads after the earlier has written, the final record holds both updates.
C8_Race ==
    \A c, d \in Callers :
        LastTwoWrites(c, d) =>
            LET rec == stateStore[CallKey(su.call[c])]
                cKeys == DOMAIN su.call[c].updates \cap DOMAIN su.call[c].current
                dKeys == DOMAIN su.call[d].updates \cap DOMAIN su.call[d].current
            IN  IF su.call[c].loadAt < su.call[d].saveAt
                THEN /\ rec = su.call[c].ret
                     /\ \A k \in cKeys : rec[k] = su.call[c].updates[k]
                     /\ \A k \in dKeys : rec[k] = su.call[c].current[k]
                ELSE /\ \A k \in cKeys : rec[k] = su.call[c].updates[k]
                     /\ \A k \in dKeys : rec[k] = su.call[d].updates[k]

\* Both calls loaded before either wrote, and a field the earlier writer set
\* does not have the earlier writer's value in the final record.
C8_Witness ==
    \E c, d \in Callers :
        /\ LastTwoWrites(c, d)
        /\ su.call[c].loadAt < su.call[d].saveAt
        /\ \E k \in DOMAIN su.call[d].updates \cap DOMAIN su.call[d].current :
              stateStore[CallKey(su.call[c])][k] # su.call[d].updates[k]

(***************************************************************************)
(* Properties of the codec.                                                *)
(***************************************************************************)
\* C9.  Envelope/Wrapper round-trip: a wrapper encoded with to_dict and
\* decoded as the receiving worker decodes it equals the original in every
\* field: the envelope's message_id, role, parts, context_id and task_id,
\* the wrapper's from_agent, to_agent, payload, conversation_id,
\* correlation_id and its metadata agent_id, agent_type, task_id, timestamp.
C9_RoundTrip ==
    cd.pc = "decoded" =>
        /\ cd.decoded.message.message_id = cd.original.message.message_id
        /\ cd.decoded.message.role = cd.original.message.role
        /\ cd.decoded.message.parts = cd.original.message.parts
        /\ cd.decoded.message.context_id = cd.original.message.context_id
        /\ cd.decoded.message.task_id = cd.original.message.task_id
        /\ cd.decoded.from_agent = cd.original.from_agent
        /\ cd.decoded.to_agent = cd.original.to_agent
        /\ cd.decoded.payload = cd.original.payload
        /\ cd.decoded.conversation_id = cd.original.conversation_id
        /\ cd.decoded.correlation_id = cd.original.correlation_id
        /\ cd.decoded.metadata.agent_id = cd.original.metadata.agent_id
        /\ cd.decoded.metadata.agent_type = cd.original.metadata.agent_type
        /\ cd.decoded.metadata.task_id = cd.original.metadata.task_id
        /\ cd.decoded.metadata.timestamp = cd.original.metadata.timestamp

(***************************************************************************)
(* Properties of EXECUTE.                                                  *)
(***************************************************************************)
\* The key a capability's load_state and update_state address for cycle
\* state `state`.
CapStateKey(state) == StateKey(ORCHESTRATION_AGENT_ID, CapConversationId(state))

\* The submissions whose conversation message m belongs to.
CasesOf(m) ==
    {i \in DOMAIN cases :
        Get(m.data, "conversation_id", None) = cases[i].conversation_id}

\* The last iteration ran a worker's cycle through EXECUTE.
Executed ==
    /\ last.handler = "agent"
    /\ last.handled
    /\ DOMAIN last.state # {}
    /\ \E i \in DOMAIN last.state.phases : last.state.phases[i] = "execute"

\* C11.  The Workflow State record persisted by create_initial_state is the
\* record the workers address: when a worker's EXECUTE has run for a message
\* of a submitted case, the key its load_state and update_state use is the
\* key under which the case's record was created, and the existence check
\* found the record, so the capability did not raise.
C11_StateKey ==
    (Executed /\ graph.execute = EXEC_OVERRIDE) =>
        \A i \in CasesOf(last.msg) :
            /\ CapStateKey(last.state) = CaseStateKey(i)
            /\ last.state.execution_results[1].status = "success"


(***************************************************************************)
(* Properties of the screening.                                            *)
(***************************************************************************)
Contains(parts, piece) == \E i \in DOMAIN parts : parts[i] = piece
ScFlagged == sc.results.flagged_transactions
ScParts == fallback_summary_parts(ScFlagged, sc.case_id)

C13_SharedSubscription ==
    /\ last.agent # "" =>
          \A b \in WorkerIds : subscription_name(b) = subscription_name(last.agent)
    /\ \A k \in DOMAIN settleLog : \A b \in WorkerIds :
          Message(k[2]) \notin subs[b]

(***************************************************************************)
(* Properties of the cycle.                                                *)
(***************************************************************************)
PhaseOrder == <<"sense", "perceive", "plan", "execute", "learn">>
IsPrefix(p, q) == Len(p) <= Len(q) /\ \A i \in DOMAIN p : p[i] = q[i]

\* The last iteration's handler called run_cycle; the call returned.
CycleRan == last.handled /\ \E i \in DOMAIN last.trace : last.trace[i] = "cycle"
CycleReturned == CycleRan /\ last.exc # "sense failed"

\* C14.  Phase order: the phases a Deep Cycle run has executed are an initial
\* part of SENSE, PERCEIVE, PLAN, EXECUTE, LEARN, in that order and without
\* repetition; a run that returns has executed all five, each exactly once;
\* a run that does not return was ended by an exception raised in SENSE.
C14_PhaseOrder ==
    CycleRan =>
        /\ IsPrefix(last.state.phases, PhaseOrder)
        /\ CycleReturned => last.state.phases = PhaseOrder
        /\ ~CycleReturned => last.state.phases = <<>>

\* A worker's cycle has returned after its five phases.
C14_Witness ==
    /\ CycleReturned
    /\ last.handler = "agent"
    /\ Len(last.state.phases) = 5

\* C14 as stated: every run executes all five phases, each exactly once, in
\* order.
C14_AsStated ==
    CycleRan => last.state.phases = PhaseOrder

\* The capability invoked in the last iteration's EXECUTE raised: the record
\* its existence check looks up is not in the store.
CapabilityRaised ==
    /\ Executed
    /\ graph.execute = EXEC_OVERRIDE
    /\ ~HasState(stateStore, ORCHESTRATION_AGENT_ID, CapConversationId(last.state))

\* C15.  A failure inside EXECUTE does not abort the cycle: when the worker's
\* capability raises, the cycle state holds one execution result with status
\* "error" and the error text, LEARN has run after EXECUTE, and run_cycle
\* has returned to handle_message, which went on past the cycle.
C15_ExecuteFailure ==
    CapabilityRaised =>
        /\ Len(last.state.execution_results) = 1
        /\ last.state.execution_results[1].status = "error"
        /\ "error" \in DOMAIN last.state.execution_results[1]
        /\ last.state.phases = PhaseOrder
        /\ DOMAIN last.state.learning # {}
        /\ CycleReturned
        /\ last.exc \in {"", "save_task failed"}

\* A capability has raised and the handler has finished without exception.
C15_Witness ==
    /\ CapabilityRaised
    /\ last.state.execution_results[1].status = "error"
    /\ last.state.phases[5] = "learn"
    /\ last.exc = ""

\* The wrappers on the topic that answer inbound message m: sent after it,
\* by its addressee, to its sender.
ResponsesTo(m) ==
    {r \in topicLog :
        /\ r.ok
        /\ r.seq > m.seq
        /\ ToAgent(r) = FromAgent(m)
        /\ FromAgent(r) = ToAgent(m)}
ResponsePayload(r) == Get(r.data, "payload", EmptyDict)
ErrorFlagged(r) ==
    \/ Get(ResponsePayload(r), "status", "") \in {"error", "failed"}
    \/ "error" \in DOMAIN ResponsePayload(r)

\* C16.  After a cycle whose EXECUTE result is an error, response dispatch
\* still runs, and the response wrapper sent to the inbound message's sender
\* carries a result flagged as an error: its payload has an error status or
\* an error text, and its text is not that of a success.
C16_ErrorResponse ==
    (CapabilityRaised /\ last.exc = "" /\ Truthy(FromAgent(last.msg))) =>
        /\ ResponsesTo(last.msg) # {}
        /\ \A r \in ResponsesTo(last.msg) :
              /\ ErrorFlagged(r)
              /\ r.data.message.parts[1].text # "Task completed: success"

(***************************************************************************)
(* Properties of the responses.                                            *)
(***************************************************************************)
\* The step is a worker's handling of a decoded wrapper (handle_message ran).
HandledStep ==
    /\ handlerRuns' # handlerRuns
    /\ last'.handler = "agent"
    /\ DOMAIN last'.wrap # {}

\* The response and error wrappers published in the step for wrapper w.
NewResponses(w) ==
    {r \in topicLog' \ topicLog :
        r.ok /\ r.data.message.message_id
                    \in {HTaskId(w) \o "_response", HTaskId(w) \o "_error"}}

C18_OneAtATime ==
    \A w \in WorkerIds :
        /\ Cardinality(lp[w]) <= 1
        /\ \A h \in handlerRuns :
              h[1] = w =>
                 \/ \E x \in lp[w] : x.msg.seq = h[2]
                 \/ SettledAs(w, Message(h[2])) \in {<<"complete">>, <<"dead_letter">>}

\* A worker's handler has finished for one message, the message is not yet
\* settled, and another message addressed to the worker waits on its
\* subscription.
C18_Witness ==
    \E w \in WorkerIds : \E x \in lp[w] :
        /\ x.pc = "settle"
        /\ \E m \in subs[w] : m # x.msg /\ m.ok /\ ToAgent(m) = w

(***************************************************************************)
(* Properties of the conversation history.                                 *)
(***************************************************************************)
\* The inbound entry that handle_message saved for message m, handled by
\* worker w, is in the history of m's conversation.
InboundEntryKept(w, m) ==
    LET wr == DecodeWrapper(m.data, Now)
        history == get_conversation_history(convStore, HConversationId(wr))
    IN  \E i \in DOMAIN history :
           /\ Get(history[i], "to_agent", None) = w
           /\ Get(history[i], "from_agent", None) = wr.from_agent
           /\ Get(history[i], "message", None) = message_to_dict(wr.message)

\* C19.  The conversation history is append-only per conversation id: every
\* save_conversation adds one entry and no later save overwrites or removes
\* an earlier entry, so, no storage call having failed and every handler
\* being a worker's, the inbound entry saved for every wrapper a worker has
\* handled is in the history that get_conversation_history returns for the
\* wrapper's conversation.
C19_AppendOnly ==
    (faults = 0 /\ nProbe = 0) =>
        \A h \in handlerRuns :
            (Message(h[2]).ok /\ ~DecodeRaises(Message(h[2]).data)) =>
                InboundEntryKept(h[1], Message(h[2]))

(***************************************************************************)
(* Properties of the task id.                                              *)
(***************************************************************************)
\* The wrappers on the topic emitted on behalf of submission i: those of its
\* conversation.
WrappersOf(i) ==
    {m \in topicLog : m.ok /\ Get(m.data, "conversation_id", None) = cases[i].conversation_id}

\* C20.  The task id is stable and unique per submission: every wrapper
\* emitted on behalf of a submission, the envelope to the extraction worker
\* and every response and error response alike, carries the task id
\* generated at submission, in its message, its correlation id and its
\* metadata; two distinct submissions never share a task id.
C20_TaskId ==
    /\ \A i \in DOMAIN cases : \A m \in WrappersOf(i) :
          /\ m.data.message.task_id = cases[i].task_id
          /\ m.data.correlation_id = cases[i].task_id
          /\ m.data.metadata.task_id = cases[i].task_id
    /\ \A i, j \in DOMAIN cases : i # j => cases[i].task_id # cases[j].task_id

\* Two cases have been submitted and a worker has answered the first.
C20_Witness ==
    /\ Len(cases) = 2
    /\ \E m \in WrappersOf(1) :
          /\ FromAgent(m) = EXTRACTOR_AGENT_ID
          /\ m.data.message.task_id = cases[1].task_id
    /\ WrappersOf(2) # {}

(***************************************************************************)
(* Properties of the worker's handling.                                    *)
(***************************************************************************)
\* C21.  In every cycle a worker's handle_message starts, EXECUTE invokes the
\* worker's own capability: the node that ran is _deep_execute_node, the one
\* execution result is a "success" or an "error" and never the placeholder's
\* "pending", and the capability has saved the cycle state under the
\* worker's id and the task id.
C21_OwnCapability ==
    Executed =>
        /\ graph.execute = EXEC_OVERRIDE
        /\ Len(last.state.execution_results) = 1
        /\ last.state.execution_results[1].status # "pending"
        /\ HasState(stateStore, last.agent, last.state.task_id)

\* The last iteration ran handle_message on a decoded wrapper.
Handled == last.handler = "agent" /\ last.handled /\ DOMAIN last.wrap # {}
InTrace(step) == \E i \in DOMAIN last.trace : last.trace[i] = step
WriteOrder == <<"save_conversation", "save_task:processing", "cycle",
                "save_task:completed">>
IsWrite(step) == \E i \in DOMAIN WriteOrder : WriteOrder[i] = step
LastTaskKey == <<last.agent, HTaskId(last.wrap)>>

\* C22.  handle_message writes in this order: the inbound conversation
\* entry, the task record with status "processing", the cycle, the task
\* record with status "completed": what one handling has done of these is an
\* initial part of that sequence; a handling that wrote "completed" ran all
\* five phases of the cycle before and leaves the record of its key
\* "completed"; a handling that stopped after "processing" leaves it
\* "processing".
C22_WriteOrder ==
    Handled =>
        /\ IsPrefix(SelectSeq(last.trace, IsWrite), WriteOrder)
        /\ InTrace("save_task:completed") =>
              /\ last.state.phases = PhaseOrder
              /\ LastTaskKey \in DOMAIN taskStore
              /\ taskStore[LastTaskKey].status = "completed"
        /\ (InTrace("save_task:processing") /\ ~InTrace("save_task:completed")) =>
              /\ LastTaskKey \in DOMAIN taskStore
              /\ taskStore[LastTaskKey].status = "processing"

\* A handling has stopped between the two task records: the cycle raised
\* after "processing" was written.
C22_Witness ==
    /\ Handled
    /\ InTrace("cycle")
    /\ ~InTrace("save_task:completed")
    /\ taskStore[LastTaskKey].status = "processing"

\* C23.  The task record written after the cycle carries the cycle's
\* execution result: when EXECUTE ended in an error, the record's result
\* records the error (an error status or the error text), or the record's
\* status is "failed", so that the record differs from that of a task whose
\* EXECUTE succeeded.
C23_TaskResult ==
    (CapabilityRaised /\ InTrace("save_task:completed")) =>
        /\ LastTaskKey \in DOMAIN taskStore
        /\ \/ taskStore[LastTaskKey].status = "failed"
           \/ Get(taskStore[LastTaskKey].result, "status", "") \in {"error", "failed"}
           \/ "error" \in DOMAIN taskStore[LastTaskKey].result

(***************************************************************************)
(* Properties of start().                                                  *)
(***************************************************************************)
\* C24.  start() ensures the subscription and then enters the receive loop:
\* no start() ends in the ensure step, so every start() that has got past
\* it is at its loop.
C24_StartReachesReceive ==
    \A w \in WorkerIds :
        /\ starts[w].pc # "raised"
        /\ starts[w].pc \in {"start", "ensure", "loop"}

\* C25.  A failure raised by receive does not end the loop: a receive call
\* that raises is followed by the sleep and the sleep by the loop's test,
\* whatever the number of calls that have raised before; the loop is left
\* only through its test, when self.running is false.
C25_Retry ==
    [][\A w \in WorkerIds :
          /\ (starts[w].pc = "loop" /\ starts'[w].fails > starts[w].fails) => starts'[w].pc = "sleep"
          /\ (starts[w].pc = "sleep" /\ starts'[w].pc # "sleep") => starts'[w].pc = "loop"
          /\ (starts[w].pc = "loop" /\ starts'[w].pc \notin {"loop", "sleep"}) =>
                (starts'[w].pc = "done" /\ ~starts[w].running)
          /\ starts'[w].pc # "raised"]_vars

\* A worker is at its loop again after MaxRetries receive calls that raised.
C25_Witness ==
    \E w \in WorkerIds :
        /\ starts[w].pc = "loop"
        /\ starts[w].running
        /\ starts[w].fails = MaxRetries

(***************************************************************************)
(* Properties of the stages.                                               *)
(***************************************************************************)
\* C27.  The screening worker is terminal: a handling of an inbound message
\* by the screening worker (the cycle and the response step of
\* handle_message) places no message on the bus.
C27_Terminal ==
    [][(\E q \in 1..busSeq : <<SCAP_AGENT_ID, q>> \in handlerRuns' \ handlerRuns)
          => busSeq' = busSeq]_vars

\* C28.  Quiescence: one case submitted, the workers running, no failure:
\* once no worker has a message addressed to it left, no message is in
\* flight, that is, every message sent on the topic has been settled by a
\* worker.
C28_Quiescence ==
    (Len(cases) = 1 /\ nExternal = 0 /\ nProbe = 0 /\ faults = 0 /\ Quiescent) =>
        \A m \in topicLog : \E w \in WorkerIds : SettledAs(w, m) # <<>>

\* The wrappers a stage emits to hand a case on (the responses and error
\* responses of handle_message are not among them).
StageEnvelopes ==
    {m \in topicLog : m.ok /\ "action" \in DOMAIN Get(m.data, "payload", EmptyDict)}
EnvelopeCase(m) == Get(Get(m.data, "payload", EmptyDict), "case_id", None)
Emitted(from, to, case_id, before) ==
    \E e \in StageEnvelopes :
        /\ FromAgent(e) = from
        /\ ToAgent(e) = to
        /\ EnvelopeCase(e) = case_id
        /\ e.seq <= before

ShouldFlag(t) ==
    /\ \/ t.country \in {"IR", "ir"}
       \/ t.jurisdiction \in {"OFFSHORE", "Offshore", "offshore"}
    /\ t.amount > SCAP_RULE_THRESHOLD
Ids(txns) == [i \in DOMAIN txns |-> txns[i].transaction_id]

\* C29.  The screening evaluates every transaction of the list and flags a
\* transaction exactly when its country or its jurisdiction is a sensitive
\* one (letters compared without regard to case) and its amount is strictly
\* above the threshold; total_transactions is the length of the list,
\* flagged_count the number of flagged transactions, and
\* flagged_transactions holds exactly the flagged ones, in the list's order.
C29_Decision ==
    sc.pc = "done" =>
        /\ sc.results.total_transactions = Len(sc.transactions)
        /\ sc.results.flagged_count
              = Cardinality({i \in DOMAIN sc.transactions : ShouldFlag(sc.transactions[i])})
        /\ Len(sc.results.flagged_transactions) = sc.results.flagged_count
        /\ Ids(sc.results.flagged_transactions)
              = Ids(SelectSeq(sc.transactions, ShouldFlag))
        /\ \A i \in DOMAIN sc.results.flagged_transactions :
              sc.results.flagged_transactions[i].risk_flagged

\* A screened list with a flagged transaction spelled in lower case, one
\* in a sensitive country with exactly the threshold amount, and one in no
\* sensitive place.
C29_Witness ==
    /\ sc.pc = "done"
    /\ Len(sc.transactions) = MaxTxns
    /\ sc.results.flagged_count = 1
    /\ \E i \in DOMAIN sc.transactions :
          sc.transactions[i].country = "ir" /\ ShouldFlag(sc.transactions[i])
    /\ \E i \in DOMAIN sc.transactions :
          /\ sc.transactions[i].country = "IR"
          /\ sc.transactions[i].amount = SCAP_RULE_THRESHOLD
    /\ \E i \in DOMAIN sc.transactions :
          sc.transactions[i].country = "DE" /\ sc.transactions[i].jurisdiction = "EU"

(***************************************************************************)
(* Properties of the cycle's phases.                                       *)
(***************************************************************************)
\* The cycle of the last handling went through SENSE.
Sensed ==
    /\ Handled
    /\ "phases" \in DOMAIN last.state
    /\ \E i \in DOMAIN last.state.phases : last.state.phases[i] = "sense"

\* C33.  SENSE keeps what handle_message put into the context: after SENSE
\* the payload of the inbound wrapper is still in the cycle's context, where
\* the capability reads it.
C33_ContextKept ==
    Sensed =>
        /\ "payload" \in DOMAIN last.state.context
        /\ last.state.context.payload = last.wrap.payload

ExecuteWithoutState ==
    /\ HandledStep
    /\ graph.execute = EXEC_OVERRIDE
    /\ "execution_results" \in DOMAIN last'.state
    /\ last'.state.execution_results # <<>>
    /\ ~LoadFound(stateStore, ORCHESTRATION_AGENT_ID, CapConversationId(last'.state))
\* The records of the state store under the entry worker's namespaces.
WorkflowRecords(store) ==
    {<<k, store[k]>> : k \in {x \in DOMAIN store :
                                 x[1] \in {"orchestration", ORCHESTRATION_AGENT_ID}}}
\* What EXECUTE leaves alone when the Workflow State is missing.
ExecuteFrame ==
    /\ last'.state.execution_results[1].status = "error"
    /\ WorkflowRecords(stateStore') = WorkflowRecords(stateStore)
    /\ txnStore' = txnStore
    /\ a2aTasks' = a2aTasks
    /\ \A m \in topicLog' \ topicLog : "action" \notin DOMAIN m.data.payload
    /\ last'.outcome = "complete"
    /\ last'.msg \notin subs'[last'.agent]
    /\ \A q \in 1..busSeq' : <<last'.agent, q>> \in handlerRuns' \ handlerRuns
                                => q = last'.msg.seq

C34_HistoryFirst ==
    (/\ Sensed
     /\ InTrace("save_conversation")
     /\ Truthy(HConversationId(last.wrap))
     /\ get_conversation_history(convStore, HConversationId(last.wrap)) # <<>>)
       => /\ "conversation_history" \in DOMAIN last.state.context
          /\ "task_context" \notin DOMAIN last.state.context

\* The memory records LEARN has stored: the documents that hold a learning.
MemoryRecords ==
    {convStore[id] : id \in {i \in DOMAIN convStore :
                                "learning" \in DOMAIN convStore[i].message}}

\* C35.  When a model is configured and answers, LEARN stores one memory
\* record (plan, execution results, learning, timestamp) for the handling,
\* under the inbound wrapper's conversation id when it has one, under the
\* task id only when it has none.
C35_MemoryKey ==
    (/\ Sensed
     /\ llm
     /\ faults = 0
     /\ last.exc = ""
     /\ last.state.learning.lessons = LlmText)
       => \E r \in MemoryRecords :
             /\ r.message.task_id = last.state.task_id
             /\ r.message.plan = last.state.plan
             /\ r.message.execution_results = last.state.execution_results
             /\ r.conversation_id = OrElse(HConversationId(last.wrap), HTaskId(last.wrap))

\* What PERCEIVE, PLAN and LEARN have stored in the last cycle.
Understanding == Get(last.state.perception, "understanding", "")
PlanText == IF last.state.plan = <<>> THEN "" ELSE last.state.plan[1].description
Lessons == Get(last.state.learning, "lessons", "")

\* C36.  A cycle runs to completion or raises, and it raises only on a
\* failure in SENSE: with no model, PERCEIVE, PLAN and LEARN store their
\* fixed values; with a model each stores the model's answer or, when the
\* invocation (in LEARN also the save of the memory record) fails, its
\* fallback value, and the cycle goes on through all five phases.
C36_Degrade ==
    CycleRan =>
        /\ last.exc = "sense failed" \/ last.state.phases = PhaseOrder
        /\ last.state.phases = PhaseOrder =>
              /\ Understanding \in (IF llm THEN {LlmText, "Error in perception"}
                                    ELSE {"Basic perception without LLM"})
              /\ PlanText \in (IF llm THEN {LlmText, "Fallback plan"}
                               ELSE {"Execute assigned task"})
              /\ Lessons \in (IF llm THEN {LlmText, "Execution completed"}
                              ELSE {"Task executed"})

\* The model failed in PERCEIVE and the cycle has run its five phases.
C36_Witness ==
    /\ CycleReturned
    /\ llm
    /\ Understanding = "Error in perception"
    /\ last.state.phases = PhaseOrder
    /\ Lessons = LlmText

\* C37.  After PLAN the plan has exactly one step: with no model, with a
\* model that answers, and with a model whose invocation fails.
C37_OneStep ==
    (CycleRan /\ \E i \in DOMAIN last.state.phases : last.state.phases[i] = "plan")
       => /\ Len(last.state.plan) = 1
          /\ last.state.plan[1].action = "execute_task"

\* The model failed in PLAN and the plan is the one fallback step.
C37_Witness ==
    /\ CycleReturned
    /\ llm
    /\ Len(last.state.plan) = 1
    /\ PlanText = "Fallback plan"

(***************************************************************************)
(* Properties of the entry worker.                                         *)
(***************************************************************************)
\* The wrappers of the entry worker on the topic.
EntryEnvelopes == {m \in topicLog : m.ok /\ FromAgent(m) = ORCHESTRATION_AGENT_ID}

\* C38.  The entry worker creates the Workflow State of a case before it
\* emits the wrapper for the extraction worker: at every moment at which a
\* wrapper of the entry worker is on the topic, and so at every moment a
\* worker processes it, the Workflow State record of its case exists.
C38_StateBeforeEnvelope ==
    \A m \in EntryEnvelopes :
        /\ HasState(stateStore, "orchestration", m.data.conversation_id)
        /\ stateStore[StateKey("orchestration", m.data.conversation_id)].case_id
              = m.data.payload.case_id

\* The extraction worker has handled the wrapper of a case while the entry
\* worker was serving the next request.
C38_Witness ==
    \E m \in EntryEnvelopes :
        /\ <<EXTRACTOR_AGENT_ID, m.seq>> \in handlerRuns
        /\ HasState(stateStore, "orchestration", m.data.conversation_id)
        /\ rq.pc = 2

(***************************************************************************)
(* Properties of the transaction store.                                    *)
(***************************************************************************)
\* C39.  Transactions are stored per case: whatever save_transactions calls
\* were made, on this case and on others, get_transactions of a case returns
\* exactly the transactions last saved for that case.
C39_PerCase ==
    \A c \in TxCases :
        tx.got.case_id = c =>
            tx.got.ret = {tx.saved[c][i] : i \in DOMAIN tx.saved[c]}

(***************************************************************************)
(* Delivery.                                                               *)
(***************************************************************************)
\* The message numbered q was sent to the topic and is addressed to w.
SentTo(w, q) == \E m \in topicLog : m.seq = q /\ m.ok /\ Addressed(w, m)

\* The receiver on the subscription of w has accepted or dead-lettered q.
SettledBy(w, q) ==
    /\ <<w, q>> \in DOMAIN settleLog
    /\ \E i \in DOMAIN settleLog[<<w, q>>] :
          settleLog[<<w, q>>][i] \in {"complete", "dead_letter"}

\* C40.  Delivery liveness: with every worker running its loop, each message
\* sent to the topic and addressed to a worker is eventually accepted or
\* dead-lettered on that worker's subscription, however often other workers
\* abandon it.  Sent and settled messages stay sent and settled, so the
\* property is that again and again no sent message is left unsettled.
C40_Delivery ==
    []<>(\A w \in WorkerIds : \A q \in 1..MaxEvents : SentTo(w, q) => SettledBy(w, q))

\* Another worker has just abandoned a message that its addressee has
\* accepted or dead-lettered.
C40_Witness ==
    \E w \in WorkerIds :
        /\ last.outcome = "abandon"
        /\ last.agent # w
        /\ SentTo(w, last.msg.seq)
        /\ SettledBy(w, last.msg.seq)

====
